---- MODULE Spec2Model ----
(***************************************************************************)
(* Model of the resilient extraction pipeline of astrografe:               *)
(*   - CircuitBreaker / ModelPool        (src/src/lib/circuit-breaker.ts)  *)
(*   - parseExtractionResponse, isRetryableModel, extractDescricao         *)
(*                                       (src/unnamed/part_006)            *)
(*   - chatCompletion's outcomes         (src/unnamed/part_007)            *)
(*   - normalizeText                     (src/src/lib/circuit-breaker.test.ts,*)
(*                                        lines 83-157)                    *)
(*   - the ingest route POST             (src/unnamed/part_011)            *)
(*   - the Convex tables and functions   (src/unnamed/part_003, part_004)  *)
(*                                                                         *)
(* Time is Date.now() in milliseconds.  JavaScript runs extractDescricao   *)
(* to the next `await` without interleaving, so one action models the code *)
(* between two suspension points.                                          *)
(***************************************************************************)
EXTENDS Integers, Sequences, FiniteSets, TLC

VARIABLES
    now,        \* Date.now()
    pool,       \* the ModelPool: [cursor, breakers: id -> [failCount, cooldownUntil]]
    pc,         \* per invocation: "idle" | "calling" | "returned" | "threw"
    attempt,    \* per invocation: the loop variable `attempt`
    modelId,    \* per invocation: the local `modelId` of the current attempt
    calls,      \* per invocation: number of chatCompletion calls started
    completed,  \* per invocation: number of chatCompletion calls settled
    lastError,  \* per invocation: the local `lastError`
    result,     \* per invocation: the value returned or the error thrown
    lastOp,     \* direct pool API: the operation performed last
    ret,        \* direct pool API: return value of the last nextHealthy()
    arg,        \* direct pool API: argument of the last recordSuccess/recordFailure
    stayed,     \* per provider x: providers healthy ever since x was last returned
    seen,       \* per provider x: how often each provider was returned since then
    cb,         \* a CircuitBreaker used on its own: [failCount, cooldownUntil]
    cbOp,       \* the method of cb called last
    healthy,    \* what the last cb.isHealthy() returned
    failedAt,   \* Date.now() at the last cb.recordFailure()
    afterRecovery, \* the last cb.recordFailure() came once the cooldown before it had elapsed
    cleared,    \* failCount that the last cb.recordSuccess() discarded
    poolRef,    \* ingest route: the module-level `pool` (0 for null, else the instance)
    instances,  \* ingest route: the ModelPool objects constructed so far, in order
    modelPool,  \* per request: the local `modelPool` of POST (0 before getPool)
    statusIn,   \* isRetryableModel on its own: its argument
    classified, \* ... whether it has been applied
    retryable,  \* ... what it returned
    rawIn,      \* parseExtractionResponse on its own: its argument
    parseOut,   \* ... what it returned or threw
    textIn,     \* normalizeText on its own: the string it is applied to, then its result
    passes,     \* ... how many times it has been applied
    partsIn,    \* the join pass of normalizeText on its own: its `parts`
    partsOut,   \* ... its `result`
    passDone,   \* ... whether it has run
    quotes_raw,       \* Convex table quotes_raw: the records inserted, in order
    quotes_parsed,    \* Convex table quotes_parsed
    quote_embeddings, \* Convex table quote_embeddings
    postPc,     \* per request: where POST stands
    orc_number, \* per request: the local `orc_number` ("undefined" without a match)
    rawId,      \* per request: the local `rawId` (0 before insertRaw)
    parsedId,   \* per request: the local `parsedId` (0 before insertParsed)
    response,   \* per request: the response returned (status 0: none yet)
    startedAt,  \* per invocation: Date.now() when extractDescricao was called
    healthyAtStart, \* per invocation: the providers that were healthy then
    failures,   \* per invocation: the failures it has recorded, per provider
    outcomes    \* per invocation: the kinds of outcome its provider calls have had

vars == <<now, pool, pc, attempt, modelId, calls, completed, lastError, result,
          lastOp, ret, arg, stayed, seen, cb, cbOp, healthy, failedAt,
          afterRecovery, cleared, poolRef, instances, modelPool,
          statusIn, classified, retryable, rawIn, parseOut, textIn, passes,
          partsIn, partsOut, passDone, quotes_raw, quotes_parsed, quote_embeddings,
          postPc, orc_number, rawId, parsedId, response,
          startedAt, healthyAtStart, failures, outcomes>>

extractVars == <<pc, attempt, modelId, calls, completed, lastError, result>>
apiVars == <<lastOp, ret, arg, stayed, seen>>
breakerVars == <<cb, cbOp, healthy, failedAt, afterRecovery, cleared>>
ingestVars == <<poolRef, instances, modelPool>>
fnVars == <<statusIn, classified, retryable, rawIn, parseOut, textIn, passes>>
joinVars == <<partsIn, partsOut, passDone>>
dbVars == <<quotes_raw, quotes_parsed, quote_embeddings>>
postVars == <<postPc, orc_number, rawId, parsedId, response>>
histVars == <<startedAt, healthyAtStart, failures, outcomes>>

----------------------------------------------------------------------------
(* Bounds of the model *)

MaxTicks == 2          \* the clock stops at MaxTicks * BASE_COOLDOWN_MS
MaxFailCount == 1      \* a failure is recorded only while failCount is below this
MaxSeen == 2           \* `seen` saturates here
MaxBreakerFails == 6   \* the stand-alone breaker records at most this many failures in a row
MaxLen == 5            \* normalizeText is applied to texts of at most this many characters
MaxPasses == 2         \* ... at most this many times in a row
MaxParagraphLen == 7   \* ... and to texts of paragraphs of at most this many characters
MaxSoloTicks == 4      \* the clock of the invocations run one by one stops at 4 steps
MaxParts == 3          \* the join pass is applied to at most this many lines
MaxStatus == 599       \* the largest HTTP status a provider answers with
MaxInstances == 2      \* getPool runs only while it leaves at most this many pools
MaxBreakerTicks == 64  \* its clock stops at MaxBreakerTicks * ClockStep

----------------------------------------------------------------------------
(* circuit-breaker.ts *)

MAX_COOLDOWN_MS == 10 * 60 * 1000
BASE_COOLDOWN_MS == 30 * 1000

Min(a, b) == IF a <= b THEN a ELSE b
Max(a, b) == IF a >= b THEN a ELSE b

\* new ModelPool([fast, strong, backup])
Models == <<"a", "b", "c">>
ModelIds == {Models[i] : i \in 1..Len(Models)}
Null == "null"
\* an identifier the pool does not hold
UnknownId == "zz"

\* isHealthy with a strict comparison
IsHealthy_Strict(b, t) == t > b.cooldownUntil

\* isHealthy looking at the failure count instead of the clock
IsHealthy_ByFailCount(b, t) == b.failCount = 0

\* a breaker that stays open for good after its third failure
IsHealthy_TripsOpen(b, t) == t >= b.cooldownUntil /\ b.failCount < 3

\* CircuitBreaker.isHealthy
IsHealthy(b, t) == t >= b.cooldownUntil

\* recordSuccess forgetting to clear the cooldown
BreakerRecordSuccess_KeepsCooldown(b) ==
    [failCount |-> 0, cooldownUntil |-> b.cooldownUntil]

\* recordSuccess clearing the cooldown but not the failure count
BreakerRecordSuccess_KeepsFailCount(b) ==
    [failCount |-> b.failCount, cooldownUntil |-> 0]

\* CircuitBreaker.recordSuccess
BreakerRecordSuccess(b) == [failCount |-> 0, cooldownUntil |-> 0]

\* recordFailure with the exponent off by one
BreakerRecordFailure_OffByOne(b, t) ==
    LET fc == b.failCount + 1
        cooldown == Min((2 ^ fc) * BASE_COOLDOWN_MS, MAX_COOLDOWN_MS)
    IN  [failCount |-> fc, cooldownUntil |-> t + cooldown]

\* recordFailure starting the count afresh once the cooldown has elapsed
BreakerRecordFailure_ResetOnRecovery(b, t) ==
    LET fc == IF t >= b.cooldownUntil THEN 1 ELSE b.failCount + 1
        cooldown == Min((2 ^ (fc - 1)) * BASE_COOLDOWN_MS, MAX_COOLDOWN_MS)
    IN  [failCount |-> fc, cooldownUntil |-> t + cooldown]

\* recordFailure without the cap
BreakerRecordFailure_NoCap(b, t) ==
    LET fc == b.failCount + 1
        cooldown == (2 ^ (fc - 1)) * BASE_COOLDOWN_MS
    IN  [failCount |-> fc, cooldownUntil |-> t + cooldown]

\* recordFailure falling back to the base cooldown beyond the cap
BreakerRecordFailure_WrapsAtCap(b, t) ==
    LET fc == b.failCount + 1
        raw == (2 ^ (fc - 1)) * BASE_COOLDOWN_MS
        cooldown == IF raw > MAX_COOLDOWN_MS THEN BASE_COOLDOWN_MS ELSE raw
    IN  [failCount |-> fc, cooldownUntil |-> t + cooldown]

\* CircuitBreaker.recordFailure
\* recordFailure that counts the failure and sets no cooldown
BreakerRecordFailure_NoCooldown(b, t) ==
    [failCount |-> b.failCount + 1, cooldownUntil |-> b.cooldownUntil]

BreakerRecordFailure(b, t) ==
    LET fc == b.failCount + 1
        cooldown == Min((2 ^ (fc - 1)) * BASE_COOLDOWN_MS, MAX_COOLDOWN_MS)
    IN  [failCount |-> fc, cooldownUntil |-> t + cooldown]

\* ModelPool constructor
NewPool ==
    [cursor |-> 0,
     breakers |-> [id \in ModelIds |-> [failCount |-> 0, cooldownUntil |-> 0]]]

\* ModelPool.size
Size == Len(Models)

\* the loop leaving the cursor on the identifier it returns
RECURSIVE Scan_CursorNotPast(_, _, _)
Scan_CursorNotPast(pl, t, i) ==
    IF i < Len(Models)
    THEN LET idx == (pl.cursor + i) % Len(Models)
             model == Models[idx + 1]
         IN  IF IsHealthy(pl.breakers[model], t)
             THEN [model |-> model, pool |-> [pl EXCEPT !.cursor = idx]]
             ELSE Scan_CursorNotPast(pl, t, i + 1)
    ELSE [model |-> Null, pool |-> pl]

\* the loop scanning from the head of the list instead of the cursor
RECURSIVE Scan_FromHead(_, _, _)
Scan_FromHead(pl, t, i) ==
    IF i < Len(Models)
    THEN LET idx == i % Len(Models)
             model == Models[idx + 1]
         IN  IF IsHealthy(pl.breakers[model], t)
             THEN [model |-> model,
                   pool |-> [pl EXCEPT !.cursor = (idx + 1) % Len(Models)]]
             ELSE Scan_FromHead(pl, t, i + 1)
    ELSE [model |-> Null, pool |-> pl]

\* the for loop of ModelPool.nextHealthy from iteration i on
RECURSIVE Scan(_, _, _)
Scan(pl, t, i) ==
    IF i < Len(Models)
    THEN LET idx == (pl.cursor + i) % Len(Models)
             model == Models[idx + 1]
         IN  IF IsHealthy(pl.breakers[model], t)
             THEN [model |-> model,
                   pool |-> [pl EXCEPT !.cursor = (idx + 1) % Len(Models)]]
             ELSE Scan(pl, t, i + 1)
    ELSE [model |-> Null, pool |-> pl]

\* nextHealthy falling back to the provider under the cursor when none is healthy
NextHealthy_FallsBack(pl, t) ==
    IF Scan(pl, t, 0).model = Null
    THEN [model |-> Models[pl.cursor + 1],
          pool |-> [pl EXCEPT !.cursor = (pl.cursor + 1) % Len(Models)]]
    ELSE Scan(pl, t, 0)

\* ModelPool.nextHealthy: the identifier returned and the pool afterwards
NextHealthy(pl, t) == Scan(pl, t, 0)

\* recordSuccess on a pool whose identifiers all share one breaker object
PoolRecordSuccess_SharedBreaker(pl, id) ==
    IF id \in DOMAIN pl.breakers
    THEN [pl EXCEPT !.breakers =
            [k \in DOMAIN pl.breakers |-> BreakerRecordSuccess(pl.breakers[k])]]
    ELSE pl

\* ModelPool.recordSuccess
PoolRecordSuccess(pl, id) ==
    IF id \in DOMAIN pl.breakers
    THEN [pl EXCEPT !.breakers[id] = BreakerRecordSuccess(@)]
    ELSE pl

\* recordFailure sending the rotation back to the head of the list
PoolRecordFailure_ResetsCursor(pl, id, t) ==
    IF id \in DOMAIN pl.breakers
    THEN [pl EXCEPT !.breakers[id] = BreakerRecordFailure(@, t), !.cursor = 0]
    ELSE pl

\* recordFailure creating a breaker for an identifier it does not know
PoolRecordFailure_CreatesBreaker(pl, id, t) ==
    IF id \in DOMAIN pl.breakers
    THEN [pl EXCEPT !.breakers[id] = BreakerRecordFailure(@, t)]
    ELSE [pl EXCEPT !.breakers =
            [k \in DOMAIN pl.breakers \cup {id} |->
               IF k = id
               THEN BreakerRecordFailure([failCount |-> 0, cooldownUntil |-> 0], t)
               ELSE pl.breakers[k]]]

\* ModelPool.recordFailure
PoolRecordFailure(pl, id, t) ==
    IF id \in DOMAIN pl.breakers
    THEN [pl EXCEPT !.breakers[id] = BreakerRecordFailure(@, t)]
    ELSE pl

----------------------------------------------------------------------------
(* Values: a JavaScript value is a record [t, v], t its kind ("undefined"   *)
(* "null" "bool" "num" "str" "arr" "obj") and v its content; a string's     *)
(* content is a sequence of characters; numbers are fixed point, ConfOne    *)
(* standing for 1.0.                                                        *)

ConfOne == 100

Whitespace == {" ", "\n"}

\* String.prototype.trim
RECURSIVE TrimLeft(_)
TrimLeft(s) ==
    IF s # <<>> /\ Head(s) \in Whitespace THEN TrimLeft(Tail(s)) ELSE s

RECURSIVE TrimRight(_)
TrimRight(s) ==
    IF s # <<>> /\ s[Len(s)] \in Whitespace
    THEN TrimRight(SubSeq(s, 1, Len(s) - 1))
    ELSE s

Trim(s) == TrimRight(TrimLeft(s))

Undefined == [t |-> "undefined", v |-> 0]

\* the values JSON.parse yields ([t |-> "notjson"] stands for its SyntaxError)
JNull == [t |-> "null", v |-> 0]
Str(s) == [t |-> "str", v |-> s]
Num(n) == [t |-> "num", v |-> n]
Arr(s) == [t |-> "arr", v |-> s]
Obj(f) == [t |-> "obj", v |-> f]
NotJson == [t |-> "notjson", v |-> 0]

\* the typeof operator
TypeOf(j) ==
    CASE j.t = "undefined" -> "undefined"
      [] j.t = "str" -> "string"
      [] j.t = "num" -> "number"
      [] j.t = "bool" -> "boolean"
      [] OTHER -> "object"

\* Array.isArray
IsArray(j) == j.t = "arr"

\* reading a property of null or undefined throws a TypeError
PropertyThrows(j) == j.t \in {"null", "undefined"}

\* j.name
Prop(j, name) ==
    IF j.t = "obj" /\ name \in DOMAIN j.v THEN j.v[name] ELSE Undefined

\* errors: the class, the HTTP status of an OpenRouterError (0 otherwise), the message
MkError(name, status, message) ==
    [name |-> name, status |-> status, message |-> message]

NoError == MkError("none", 0, "")
AllCooldownError == MkError("Error", 0, "All models are in cooldown. Try again later.")
InvalidJsonError == MkError("Error", 0, "Invalid JSON from LLM")
MissingDescricaoError == MkError("Error", 0, "missing descricao in LLM response")
TypeErrorThrown == MkError("TypeError", 0, "")
FetchFailed == MkError("TypeError", 0, "fetch failed")
ExhaustedError == MkError("Error", 0, "Extraction failed after all attempts")

\* new OpenRouterError(status, body)
OpenRouterError(status) == MkError("OpenRouterError", status, "OpenRouter error")

\* err instanceof OpenRouterError
IsOpenRouterError(e) == e.name = "OpenRouterError"

Threw(e) == [ok |-> FALSE, error |-> e, value |-> <<>>]
Returned(v) == [ok |-> TRUE, error |-> NoError, value |-> v]

----------------------------------------------------------------------------
(* extractor (src/unnamed/part_006) *)

\* the filter without its check of preco_unit
KeepItem_NoPriceCheck(item) ==
    /\ TypeOf(item) = "object"
    /\ TypeOf(Prop(item, "descricao")) = "string"
    /\ TypeOf(Prop(item, "quant")) = "string"

\* the predicate of line_items.filter for one element that is not null
KeepItem(item) ==
    /\ TypeOf(item) = "object"
    /\ TypeOf(Prop(item, "descricao")) = "string"
    /\ TypeOf(Prop(item, "quant")) = "string"
    /\ TypeOf(Prop(item, "preco_unit")) = "string"

\* the function given to .map: medida is kept only when a non-empty string
MapItem(item) ==
    LET m == Prop(item, "medida")
    IN  [descricao |-> Prop(item, "descricao"),
         medida |-> IF TypeOf(m) = "string" /\ m.v # <<>> THEN m ELSE Undefined,
         quant |-> Prop(item, "quant"),
         preco_unit |-> Prop(item, "preco_unit")]

RECURSIVE FilterMapItems(_)
FilterMapItems(items) ==
    IF items = <<>> THEN <<>>
    ELSE IF KeepItem(Head(items))
         THEN <<MapItem(Head(items))>> \o FilterMapItems(Tail(items))
         ELSE FilterMapItems(Tail(items))

RECURSIVE FilterStrings(_)
FilterStrings(ws) ==
    IF ws = <<>> THEN <<>>
    ELSE IF TypeOf(Head(ws)) = "string"
         THEN <<Head(ws)>> \o FilterStrings(Tail(ws))
         ELSE FilterStrings(Tail(ws))

\* the parser clamping the confidence from above only
ParseExtractionResponse_NoLowerClamp(raw) ==
    IF ~raw.isString THEN Threw(TypeErrorThrown)                 \* raw.trim()
    ELSE IF raw.json.t = "notjson" THEN Threw(InvalidJsonError)
    ELSE LET obj == raw.json IN
    IF PropertyThrows(obj) THEN Threw(TypeErrorThrown)           \* obj.descricao
    ELSE LET d == Prop(obj, "descricao") IN
    IF TypeOf(d) # "string" THEN Threw(MissingDescricaoError)
    ELSE IF Trim(d.v) = <<>> THEN Threw(MissingDescricaoError)
    ELSE LET c == Prop(obj, "confidence")
             w == Prop(obj, "warnings")
             li == Prop(obj, "line_items")
             confidence == IF TypeOf(c) = "number"
                           THEN Num(Min(ConfOne, c.v))
                           ELSE Num(ConfOne \div 2)
             warnings == IF IsArray(w) THEN FilterStrings(w.v) ELSE <<>>
         IN
    \* typeof null is "object", so item.descricao throws on a null element
    IF IsArray(li) /\ \E k \in 1..Len(li.v) : PropertyThrows(li.v[k])
    THEN Threw(TypeErrorThrown)
    ELSE Returned([descricao |-> Str(Trim(d.v)),
                   confidence |-> confidence,
                   warnings |-> warnings,
                   line_items |-> IF IsArray(li) THEN FilterMapItems(li.v) ELSE <<>>])

\* the parser accepting a descricao of whitespace only
ParseExtractionResponse_BlankDescricao(raw) ==
    IF ~raw.isString THEN Threw(TypeErrorThrown)                 \* raw.trim()
    ELSE IF raw.json.t = "notjson" THEN Threw(InvalidJsonError)
    ELSE LET obj == raw.json IN
    IF PropertyThrows(obj) THEN Threw(TypeErrorThrown)           \* obj.descricao
    ELSE LET d == Prop(obj, "descricao") IN
    IF TypeOf(d) # "string" THEN Threw(MissingDescricaoError)
    ELSE IF d.v = <<>> THEN Threw(MissingDescricaoError)
    ELSE LET c == Prop(obj, "confidence")
             w == Prop(obj, "warnings")
             li == Prop(obj, "line_items")
             confidence == IF TypeOf(c) = "number"
                           THEN Num(Min(ConfOne, Max(0, c.v)))
                           ELSE Num(ConfOne \div 2)
             warnings == IF IsArray(w) THEN FilterStrings(w.v) ELSE <<>>
         IN
    \* typeof null is "object", so item.descricao throws on a null element
    IF IsArray(li) /\ \E k \in 1..Len(li.v) : PropertyThrows(li.v[k])
    THEN Threw(TypeErrorThrown)
    ELSE Returned([descricao |-> Str(Trim(d.v)),
                   confidence |-> confidence,
                   warnings |-> warnings,
                   line_items |-> IF IsArray(li) THEN FilterMapItems(li.v) ELSE <<>>])

\* parseExtractionResponse applied to response.content.  A content is
\* [isString, fenced, json]: whether it is a string at all, whether the
\* text is wrapped in a ``` fence (stripped before parsing), and the value
\* JSON.parse yields for the text inside ([t |-> "notjson"] when it throws).
ParseExtractionResponse(raw) ==
    IF ~raw.isString THEN Threw(TypeErrorThrown)                 \* raw.trim()
    ELSE IF raw.json.t = "notjson" THEN Threw(InvalidJsonError)
    ELSE LET obj == raw.json IN
    IF PropertyThrows(obj) THEN Threw(TypeErrorThrown)           \* obj.descricao
    ELSE LET d == Prop(obj, "descricao") IN
    IF TypeOf(d) # "string" THEN Threw(MissingDescricaoError)
    ELSE IF Trim(d.v) = <<>> THEN Threw(MissingDescricaoError)
    ELSE LET c == Prop(obj, "confidence")
             w == Prop(obj, "warnings")
             li == Prop(obj, "line_items")
             confidence == IF TypeOf(c) = "number"
                           THEN Num(Min(ConfOne, Max(0, c.v)))
                           ELSE Num(ConfOne \div 2)
             warnings == IF IsArray(w) THEN FilterStrings(w.v) ELSE <<>>
         IN
    \* typeof null is "object", so item.descricao throws on a null element
    IF IsArray(li) /\ \E k \in 1..Len(li.v) : PropertyThrows(li.v[k])
    THEN Threw(TypeErrorThrown)
    ELSE Returned([descricao |-> Str(Trim(d.v)),
                   confidence |-> confidence,
                   warnings |-> warnings,
                   line_items |-> IF IsArray(li) THEN FilterMapItems(li.v) ELSE <<>>])

\* isRetryableModel with an off-by-one server-error bound
IsRetryableModel_Above500(status) == status = 429 \/ status > 500

\* isRetryableModel forgetting the rate limit
IsRetryableModel_ServerOnly(status) == status >= 500

\* isRetryableModel
IsRetryableModel(status) == status = 429 \/ status >= 500

Text(j) == [isString |-> TRUE, fenced |-> FALSE, json |-> j]
Fenced(j) == [isString |-> TRUE, fenced |-> TRUE, json |-> j]
NotAString == [isString |-> FALSE, fenced |-> FALSE, json |-> JNull]

GoodItem == Obj([descricao |-> Str(<<"i">>), quant |-> Str(<<"2">>),
                 preco_unit |-> Str(<<"9">>), medida |-> Str(<<>>)])
ItemWithMedida == Obj([descricao |-> Str(<<>>), quant |-> Str(<<"1">>),
                       preco_unit |-> Str(<<"5">>), medida |-> Str(<<"m">>)])
ItemNoQuant == Obj([descricao |-> Str(<<"i">>), preco_unit |-> Str(<<"9">>)])
ItemNumericPrice == Obj([descricao |-> Str(<<"i">>), quant |-> Str(<<"2">>),
                         preco_unit |-> Num(900)])

\* the contents a provider answers with (response.content)
Contents ==
    << Fenced(Obj([descricao |-> Str(<<" ", "x", " ">>), confidence |-> Num(150),
                   warnings |-> Arr(<<Str(<<"w">>), Num(1)>>),
                   line_items |-> Arr(<<GoodItem, ItemNoQuant, Str(<<"i">>),
                                        ItemWithMedida, ItemNumericPrice>>)])),
       Text(Obj([descricao |-> Str(<<"x", " ", "y">>), confidence |-> Num(0 - 50),
                 warnings |-> Str(<<"w">>), line_items |-> JNull])),
       Text(NotJson),
       Text(Obj([descricao |-> Str(<<" ", "\n">>), confidence |-> Num(90)])),
       Text(Obj([confidence |-> Num(90), warnings |-> Arr(<<>>)])),
       Text(Obj([descricao |-> Str(<<"x">>), line_items |-> Arr(<<GoodItem, JNull>>)])),
       NotAString >>

\* the HTTP statuses a provider answers a failed call with
Statuses == {401, 429, 500}

----------------------------------------------------------------------------
(* extractDescricao, one invocation per element of Invocations, all sharing *)
(* the module-level pool                                                    *)

Invocations == {"i1", "i2"}

\* the POST requests of the ingest route: each runs one invocation
Requests == Invocations

\* a retry budget one attempt too large
MAX_ATTEMPTS_TwoExtra == Size + 2

\* a retry budget without the attempt that finds every provider cooling down
MAX_ATTEMPTS_PoolSize == Size

\* const MAX_ATTEMPTS = pool.size + 1
MAX_ATTEMPTS == Size + 1

NoResult == [ok |-> FALSE, error |-> NoError, value |-> <<>>]

\* a loop head that calls every healthy provider at once
LoopHead_FanOut(att, pl, le, cl, mid) ==
    IF ~(att < MAX_ATTEMPTS)
    THEN [pc |-> "threw", attempt |-> att, modelId |-> mid, calls |-> cl,
          lastError |-> le, pool |-> pl,
          result |-> Threw(IF le = NoError THEN ExhaustedError ELSE le)]
    ELSE LET r == NextHealthy(pl, now) IN
         IF r.model = Null
         THEN [pc |-> "threw", attempt |-> att, modelId |-> Null, calls |-> cl,
               lastError |-> le, pool |-> r.pool,
               result |-> Threw(AllCooldownError)]
         ELSE [pc |-> "calling", attempt |-> att, modelId |-> r.model,
               calls |-> cl + Cardinality({id \in ModelIds :
                                             IsHealthy(pl.breakers[id], now)}),
               lastError |-> le, pool |-> r.pool,
               result |-> NoResult]

\* the values the locals and the pool take when the invocation runs from the
\* head of the for loop (with the loop variable at att) to its next suspension
LoopHead(att, pl, le, cl, mid) ==
    IF ~(att < MAX_ATTEMPTS)
    THEN \* throw lastError ?? new Error(...)
         [pc |-> "threw", attempt |-> att, modelId |-> mid, calls |-> cl,
          lastError |-> le, pool |-> pl,
          result |-> Threw(IF le = NoError THEN ExhaustedError ELSE le)]
    ELSE LET r == NextHealthy(pl, now) IN
         IF r.model = Null
         THEN [pc |-> "threw", attempt |-> att, modelId |-> Null, calls |-> cl,
               lastError |-> le, pool |-> r.pool,
               result |-> Threw(AllCooldownError)]
         ELSE \* await chatCompletion(apiKey, modelId, ...)
              [pc |-> "calling", attempt |-> att, modelId |-> r.model,
               calls |-> cl + 1, lastError |-> le, pool |-> r.pool,
               result |-> NoResult]

\* the catch block that does not penalise a non-retryable OpenRouterError
Catch_FatalUnpenalised(att, pl, cl, mid, err) ==
    IF IsOpenRouterError(err) /\ IsRetryableModel(err.status)
    THEN LoopHead(att + 1, PoolRecordFailure(pl, mid, now), err, cl, mid)
    ELSE IF att = 0
         THEN LoopHead(att + 1, pl, err, cl, mid)
         ELSE [pc |-> "threw", attempt |-> att, modelId |-> mid, calls |-> cl,
               lastError |-> err, pool |-> pl, result |-> Threw(err)]

\* a catch block giving parse errors a retry of their own, on the second
\* attempt as well
Catch_ParseRetriedTwice(att, pl, cl, mid, err) ==
    IF IsOpenRouterError(err) /\ IsRetryableModel(err.status)
    THEN LoopHead(att + 1, PoolRecordFailure(pl, mid, now), err, cl, mid)
    ELSE IF IsOpenRouterError(err)
    THEN IF att = 0
         THEN LoopHead(att + 1, PoolRecordFailure(pl, mid, now), err, cl, mid)
         ELSE [pc |-> "threw", attempt |-> att, modelId |-> mid, calls |-> cl,
               lastError |-> err, pool |-> PoolRecordFailure(pl, mid, now),
               result |-> Threw(err)]
    ELSE IF att <= 1
         THEN LoopHead(att + 1, pl, err, cl, mid)
         ELSE [pc |-> "threw", attempt |-> att, modelId |-> mid, calls |-> cl,
               lastError |-> err, pool |-> pl, result |-> Threw(err)]

\* a catch block whose `continue` after a first non-transient error runs
\* the same attempt again
Catch_SameAttempt(att, pl, cl, mid, err) ==
    IF IsOpenRouterError(err) /\ IsRetryableModel(err.status)
    THEN LoopHead(att + 1, PoolRecordFailure(pl, mid, now), err, cl, mid)
    ELSE IF IsOpenRouterError(err)
    THEN IF att = 0
         THEN LoopHead(att, PoolRecordFailure(pl, mid, now), err, cl, mid)
         ELSE [pc |-> "threw", attempt |-> att, modelId |-> mid, calls |-> cl,
               lastError |-> err, pool |-> PoolRecordFailure(pl, mid, now),
               result |-> Threw(err)]
    ELSE IF att = 0
         THEN LoopHead(att, pl, err, cl, mid)
         ELSE [pc |-> "threw", attempt |-> att, modelId |-> mid, calls |-> cl,
               lastError |-> err, pool |-> pl, result |-> Threw(err)]

\* the catch block for error err thrown in attempt att with provider mid
Catch(att, pl, cl, mid, err) ==
    IF IsOpenRouterError(err) /\ IsRetryableModel(err.status)
    THEN LoopHead(att + 1, PoolRecordFailure(pl, mid, now), err, cl, mid)
    ELSE IF IsOpenRouterError(err)
    THEN IF att = 0
         THEN LoopHead(att + 1, PoolRecordFailure(pl, mid, now), err, cl, mid)
         ELSE [pc |-> "threw", attempt |-> att, modelId |-> mid, calls |-> cl,
               lastError |-> err, pool |-> PoolRecordFailure(pl, mid, now),
               result |-> Threw(err)]
    ELSE IF att = 0
         THEN LoopHead(att + 1, pl, err, cl, mid)
         ELSE [pc |-> "threw", attempt |-> att, modelId |-> mid, calls |-> cl,
               lastError |-> err, pool |-> pl, result |-> Threw(err)]

\* the try block reporting success before it validates the content
Try_SuccessBeforeParse(att, pl, cl, mid, le, content) ==
    LET parsed == ParseExtractionResponse(content)
        pl1 == PoolRecordSuccess(pl, mid)
    IN
    IF parsed.ok
    THEN [pc |-> "returned", attempt |-> att, modelId |-> mid, calls |-> cl,
          lastError |-> le, pool |-> pl1,
          result |-> Returned([descricao |-> parsed.value.descricao,
                               confidence |-> parsed.value.confidence,
                               warnings |-> parsed.value.warnings,
                               line_items |-> parsed.value.line_items,
                               model_used |-> mid])]
    ELSE Catch(att, pl1, cl, mid, parsed.error)

\* the try block once chatCompletion has answered with content
Try(att, pl, cl, mid, le, content) ==
    LET parsed == ParseExtractionResponse(content) IN
    IF parsed.ok
    THEN [pc |-> "returned", attempt |-> att, modelId |-> mid, calls |-> cl,
          lastError |-> le, pool |-> PoolRecordSuccess(pl, mid),
          result |-> Returned([descricao |-> parsed.value.descricao,
                               confidence |-> parsed.value.confidence,
                               warnings |-> parsed.value.warnings,
                               line_items |-> parsed.value.line_items,
                               model_used |-> mid])]
    ELSE Catch(att, pl, cl, mid, parsed.error)

Apply(p, f) ==
    /\ pc' = [pc EXCEPT ![p] = f.pc]
    /\ attempt' = [attempt EXCEPT ![p] = f.attempt]
    /\ modelId' = [modelId EXCEPT ![p] = f.modelId]
    /\ calls' = [calls EXCEPT ![p] = f.calls]
    /\ lastError' = [lastError EXCEPT ![p] = f.lastError]
    /\ result' = [result EXCEPT ![p] = f.result]
    /\ pool' = f.pool

\* extractDescricao is called: runs up to the first await (or throws)
Start(p) ==
    /\ pc[p] # "calling"
    /\ Apply(p, LoopHead(0, pool, NoError, 0, Null))
    /\ completed' = [completed EXCEPT ![p] = 0]
    /\ UNCHANGED <<now, apiVars, breakerVars, ingestVars, fnVars,
                   joinVars, dbVars, postVars, histVars>>

\* chatCompletion resolves with a content
CallReturns(p, content) ==
    /\ pc[p] = "calling"
    /\ Apply(p, Try(attempt[p], pool, calls[p], modelId[p], lastError[p], content))
    /\ completed' = [completed EXCEPT ![p] = @ + 1]
    /\ UNCHANGED <<now, apiVars, breakerVars, ingestVars, fnVars,
                   joinVars, dbVars, postVars, histVars>>

\* chatCompletion throws new OpenRouterError(res.status, body)
CallFailsHttp(p, status) ==
    /\ pc[p] = "calling"
    /\ pool.breakers[modelId[p]].failCount < MaxFailCount
    /\ Apply(p, Catch(attempt[p], pool, calls[p], modelId[p], OpenRouterError(status)))
    /\ completed' = [completed EXCEPT ![p] = @ + 1]
    /\ UNCHANGED <<now, apiVars, breakerVars, ingestVars, fnVars,
                   joinVars, dbVars, postVars, histVars>>

\* fetch rejects (network failure, abort): not an OpenRouterError
CallRejects(p) ==
    /\ pc[p] = "calling"
    /\ Apply(p, Catch(attempt[p], pool, calls[p], modelId[p], FetchFailed))
    /\ completed' = [completed EXCEPT ![p] = @ + 1]
    /\ UNCHANGED <<now, apiVars, breakerVars, ingestVars, fnVars,
                   joinVars, dbVars, postVars, histVars>>

\* Date.now() advances by d
Tick(d) ==
    /\ now + d <= MaxTicks * BASE_COOLDOWN_MS
    /\ now' = now + d
    /\ UNCHANGED <<pool, extractVars, apiVars, breakerVars, ingestVars, fnVars,
                   joinVars, dbVars, postVars, histVars>>

\* The pool is shared by every request of the process (getPool): while the
\* invocation is suspended, invocations of other requests use the pool.
OtherNextHealthy ==
    /\ pool' = NextHealthy(pool, now).pool
    /\ pool' # pool
    /\ UNCHANGED <<now, extractVars, apiVars, breakerVars, ingestVars, fnVars,
                   joinVars, dbVars, postVars, histVars>>

OtherRecordFailure(id) ==
    /\ pool.breakers[id].failCount < MaxFailCount
    /\ pool' = PoolRecordFailure(pool, id, now)
    /\ UNCHANGED <<now, extractVars, apiVars, breakerVars, ingestVars, fnVars,
                   joinVars, dbVars, postVars, histVars>>

OtherRecordSuccess(id) ==
    /\ pool' = PoolRecordSuccess(pool, id)
    /\ pool' # pool
    /\ UNCHANGED <<now, extractVars, apiVars, breakerVars, ingestVars, fnVars,
                   joinVars, dbVars, postVars, histVars>>

\* the program as loaded: the clock at 0, a fresh pool and breaker, no
\* invocation running
InitPipeline ==
    /\ now = 0
    /\ pool = NewPool
    /\ pc = [p \in Invocations |-> "idle"]
    /\ attempt = [p \in Invocations |-> 0]
    /\ modelId = [p \in Invocations |-> Null]
    /\ calls = [p \in Invocations |-> 0]
    /\ completed = [p \in Invocations |-> 0]
    /\ lastError = [p \in Invocations |-> NoError]
    /\ result = [p \in Invocations |-> NoResult]
    /\ lastOp = "init"
    /\ ret = Null
    /\ arg = Null
    /\ stayed = [x \in ModelIds |-> {}]
    /\ seen = [x \in ModelIds |-> [y \in ModelIds |-> 0]]
    /\ cb = [failCount |-> 0, cooldownUntil |-> 0]
    /\ cbOp = "new"
    /\ healthy = TRUE
    /\ failedAt = 0
    /\ afterRecovery = FALSE
    /\ cleared = 0

\* let pool: ModelPool | null = null, and no request running
IngestIdle ==
    /\ poolRef = 0
    /\ instances = <<>>
    /\ modelPool = [r \in Requests |-> 0]

ClassifyIdle == statusIn = 0 /\ classified = FALSE /\ retryable = FALSE
ParseIdle == rawIn = NotAString /\ parseOut = NoResult
NormalizeIdle == textIn = <<>> /\ passes = 0
JoinIdle == partsIn = <<>> /\ partsOut = <<>> /\ passDone = FALSE

NoResponse == [status |-> 0, parsedId |-> 0]

\* the tables empty and no request received
PostIdle ==
    /\ quotes_raw = <<>>
    /\ quotes_parsed = <<>>
    /\ quote_embeddings = <<>>
    /\ postPc = [r \in Requests |-> "idle"]
    /\ orc_number = [r \in Requests |-> "undefined"]
    /\ rawId = [r \in Requests |-> 0]
    /\ parsedId = [r \in Requests |-> 0]
    /\ response = [r \in Requests |-> NoResponse]

HistIdle ==
    /\ startedAt = [p \in Invocations |-> 0]
    /\ healthyAtStart = [p \in Invocations |-> {}]
    /\ failures = [p \in Invocations |-> [id \in ModelIds |-> 0]]
    /\ outcomes = [p \in Invocations |-> {}]

\* nothing but the extraction pipeline and the pool in use
OthersIdle == JoinIdle /\ PostIdle /\ HistIdle

Init ==
    /\ InitPipeline /\ IngestIdle /\ ClassifyIdle /\ ParseIdle /\ NormalizeIdle
    /\ OthersIdle

\* one request at a time runs extractDescricao in detail
Tracked == {"i1"}

Next ==
    \/ \E p \in Tracked : Start(p)
    \/ \E p \in Tracked : \E k \in 1..Len(Contents) : CallReturns(p, Contents[k])
    \/ \E p \in Tracked : \E status \in Statuses : CallFailsHttp(p, status)
    \/ \E p \in Tracked : CallRejects(p)
    \/ Tick(BASE_COOLDOWN_MS)
    \/ OtherNextHealthy
    \/ \E id \in ModelIds : OtherRecordFailure(id)
    \/ \E id \in ModelIds : OtherRecordSuccess(id)

Spec == Init /\ [][Next]_vars

----------------------------------------------------------------------------
(* Two requests of the ingest route in the same process: each runs its own  *)
(* extractDescricao on the shared pool, suspended at its provider call      *)
(* while the other runs.  The providers answer with a valid content, with   *)
(* text that is no JSON, or with status 429.                                *)

SharedContents == {2, 3}

NextShared ==
    \/ \E p \in Invocations : Start(p)
    \/ \E p \in Invocations : \E k \in SharedContents : CallReturns(p, Contents[k])
    \/ \E p \in Invocations : CallFailsHttp(p, 429)
    \/ Tick(BASE_COOLDOWN_MS)

SpecShared == Init /\ [][NextShared]_vars

----------------------------------------------------------------------------
(* Invocations of extractDescricao one after the other, none while another  *)
(* is suspended at its provider call, under a clock that advances by a      *)
(* third of the base cooldown.  The providers answer with a valid content,  *)
(* with text that is no JSON, with an HTTP error, or not at all.  The       *)
(* invocation keeps, for the properties about a whole invocation: when it   *)
(* was called and which providers were healthy then, the failures it has   *)
(* recorded, and the kinds of outcome its provider calls have had.          *)

SoloStep == BASE_COOLDOWN_MS \div 3

SoloContents == {1, 3}

\* fs with the failures recorded between pool pl and pool pl2 added
Recorded(fs, pl, pl2) ==
    [id \in ModelIds |->
        IF pl2.breakers[id].failCount > pl.breakers[id].failCount
        THEN fs[id] + (pl2.breakers[id].failCount - pl.breakers[id].failCount)
        ELSE fs[id]]

\* Date.now() advances by SoloStep
SoloTick ==
    /\ now + SoloStep <= MaxSoloTicks * SoloStep
    /\ now' = now + SoloStep
    /\ UNCHANGED <<pool, extractVars, apiVars, breakerVars, ingestVars, fnVars,
                   joinVars, dbVars, postVars, histVars>>

\* extractDescricao is called while no other invocation is running
SoloStart(p) ==
    /\ \A q \in Invocations : pc[q] # "calling"
    /\ Apply(p, LoopHead(0, pool, NoError, 0, Null))
    /\ completed' = [completed EXCEPT ![p] = 0]
    /\ startedAt' = [startedAt EXCEPT ![p] = now]
    /\ healthyAtStart' = [healthyAtStart EXCEPT ![p] =
                             {id \in ModelIds : IsHealthy(pool.breakers[id], now)}]
    /\ failures' = [failures EXCEPT ![p] = [id \in ModelIds |-> 0]]
    /\ outcomes' = [outcomes EXCEPT ![p] = {}]
    /\ UNCHANGED <<now, apiVars, breakerVars, ingestVars, fnVars,
                   joinVars, dbVars, postVars>>

\* chatCompletion resolves with a content
SoloCallReturns(p, content) ==
    /\ pc[p] = "calling"
    /\ Apply(p, Try(attempt[p], pool, calls[p], modelId[p], lastError[p], content))
    /\ completed' = [completed EXCEPT ![p] = @ + 1]
    /\ failures' = [failures EXCEPT ![p] = Recorded(@, pool, pool')]
    /\ outcomes' = [outcomes EXCEPT ![p] = @ \cup
                       {IF ParseExtractionResponse(content).ok THEN "ok" ELSE "invalid"}]
    /\ UNCHANGED <<now, startedAt, healthyAtStart, apiVars, breakerVars, ingestVars,
                   fnVars, joinVars, dbVars, postVars>>

\* chatCompletion throws new OpenRouterError(res.status, body)
SoloCallFailsHttp(p, status) ==
    /\ pc[p] = "calling"
    /\ pool.breakers[modelId[p]].failCount < MaxFailCount
    /\ Apply(p, Catch(attempt[p], pool, calls[p], modelId[p], OpenRouterError(status)))
    /\ completed' = [completed EXCEPT ![p] = @ + 1]
    /\ failures' = [failures EXCEPT ![p] = Recorded(@, pool, pool')]
    /\ outcomes' = [outcomes EXCEPT ![p] = @ \cup
                       {IF IsRetryableModel(status) THEN "transient" ELSE "fatal"}]
    /\ UNCHANGED <<now, startedAt, healthyAtStart, apiVars, breakerVars, ingestVars,
                   fnVars, joinVars, dbVars, postVars>>

\* fetch rejects (network failure, abort): not an OpenRouterError
SoloCallRejects(p) ==
    /\ pc[p] = "calling"
    /\ Apply(p, Catch(attempt[p], pool, calls[p], modelId[p], FetchFailed))
    /\ completed' = [completed EXCEPT ![p] = @ + 1]
    /\ failures' = [failures EXCEPT ![p] = Recorded(@, pool, pool')]
    /\ outcomes' = [outcomes EXCEPT ![p] = @ \cup {"rejected"}]
    /\ UNCHANGED <<now, startedAt, healthyAtStart, apiVars, breakerVars, ingestVars,
                   fnVars, joinVars, dbVars, postVars>>

\* the provider call of invocation p returns or throws
Settles(p) ==
    \/ SoloCallRejects(p)
    \/ \E status \in Statuses : SoloCallFailsHttp(p, status)
    \/ \E k \in SoloContents : SoloCallReturns(p, Contents[k])

NextSolo ==
    \/ \E p \in Tracked : SoloStart(p)
    \/ \E p \in Tracked : Settles(p)
    \/ SoloTick

SpecSolo == Init /\ [][NextSolo]_vars

\* each provider call returns or throws
SpecSoloLive == SpecSolo /\ \A p \in Tracked : WF_vars(Settles(p))

----------------------------------------------------------------------------
(* The ingest route (src/unnamed/part_011): POST takes the pool from        *)
(* getPool and hands it to extractDescricao, of which only what it does to  *)
(* the pool is kept here: nextHealthy, then recordFailure or recordSuccess  *)
(* for the identifier returned.  instances[k] is the k-th ModelPool object  *)
(* constructed; poolRef and modelPool[r] refer to one by its index.         *)

\* getPool constructing a pool on every call
GetPool_AlwaysNew(ref, insts) ==
    [ref |-> Len(insts) + 1, instances |-> Append(insts, NewPool)]

\* getPool: if (!pool) pool = new ModelPool([...]); return pool
GetPool(ref, insts) ==
    IF ref = 0
    THEN [ref |-> Len(insts) + 1, instances |-> Append(insts, NewPool)]
    ELSE [ref |-> ref, instances |-> insts]

\* a request arrives: const modelPool = getPool(config)
PostGetPool(r) ==
    LET g == GetPool(poolRef, instances) IN
    /\ modelPool[r] = 0
    /\ Len(g.instances) <= MaxInstances
    /\ poolRef' = g.ref
    /\ instances' = g.instances
    /\ modelPool' = [modelPool EXCEPT ![r] = g.ref]
    /\ UNCHANGED <<now, pool, extractVars, apiVars, breakerVars, fnVars,
                   joinVars, dbVars, postVars, histVars>>

\* an attempt of the request's extractDescricao: pool.nextHealthy(), then
\* the provider call, or the all-in-cooldown error that ends the request
PostCalls(r) ==
    LET n == NextHealthy(instances[modelPool[r]], now) IN
    /\ modelPool[r] # 0 /\ pc[r] = "idle"
    /\ instances' = [instances EXCEPT ![modelPool[r]] = n.pool]
    /\ IF n.model = Null
       THEN /\ modelPool' = [modelPool EXCEPT ![r] = 0]
            /\ UNCHANGED <<pc, modelId>>
       ELSE /\ pc' = [pc EXCEPT ![r] = "calling"]
            /\ modelId' = [modelId EXCEPT ![r] = n.model]
            /\ UNCHANGED modelPool
    /\ UNCHANGED <<now, pool, poolRef, attempt, calls, completed, lastError, result,
                   apiVars, breakerVars, fnVars,
                   joinVars, dbVars, postVars, histVars>>

\* the provider call fails: pool.recordFailure(modelId)
PostCallFails(r) ==
    /\ pc[r] = "calling" /\ modelPool[r] # 0
    /\ instances[modelPool[r]].breakers[modelId[r]].failCount < MaxFailCount
    /\ instances' = [instances EXCEPT ![modelPool[r]] =
                        PoolRecordFailure(@, modelId[r], now)]
    /\ pc' = [pc EXCEPT ![r] = "idle"]
    /\ UNCHANGED <<now, pool, poolRef, modelPool, attempt, modelId, calls, completed,
                   lastError, result, apiVars, breakerVars, fnVars,
                   joinVars, dbVars, postVars, histVars>>

\* the provider call succeeds: pool.recordSuccess(modelId), and the request
\* runs to its response
PostCallSucceeds(r) ==
    /\ pc[r] = "calling" /\ modelPool[r] # 0
    /\ instances' = [instances EXCEPT ![modelPool[r]] =
                        PoolRecordSuccess(@, modelId[r])]
    /\ pc' = [pc EXCEPT ![r] = "idle"]
    /\ modelPool' = [modelPool EXCEPT ![r] = 0]
    /\ UNCHANGED <<now, pool, poolRef, attempt, modelId, calls, completed,
                   lastError, result, apiVars, breakerVars, fnVars,
                   joinVars, dbVars, postVars, histVars>>

\* the request ends without a further provider call (duplicate, error)
PostEnds(r) ==
    /\ pc[r] = "idle" /\ modelPool[r] # 0
    /\ modelPool' = [modelPool EXCEPT ![r] = 0]
    /\ UNCHANGED <<now, pool, poolRef, instances, extractVars, apiVars, breakerVars,
                   fnVars,
                   joinVars, dbVars, postVars, histVars>>

NextIngest ==
    \/ \E r \in Requests : PostGetPool(r)
    \/ \E r \in Requests : PostCalls(r)
    \/ \E r \in Requests : PostCallFails(r)
    \/ \E r \in Requests : PostCallSucceeds(r)
    \/ \E r \in Requests : PostEnds(r)
    \/ Tick(BASE_COOLDOWN_MS)

SpecIngest == Init /\ [][NextIngest]_vars

----------------------------------------------------------------------------
(* The whole ingest route (src/unnamed/part_011) against the Convex tables  *)
(* (src/unnamed/part_003, part_004).  A Convex query or mutation runs on    *)
(* the server while the request awaits it, so each is a step of its own;    *)
(* other requests run between the steps.  A record's _id is its position in *)
(* its table.  The requests share the module-level pool, here `pool`.       *)

\* what body.source_path.match(/ORC_(\d{5,9}-\d+)/) makes of the file name
OrcNumbers == {"undefined", "ORC_00068346-6"}

PostContents == {2, 3}

\* POST whose failed embedding reaches the outer catch
RespondAfterEmbedding_Propagates(failed, pid) ==
    IF failed THEN [status |-> 500, parsedId |-> 0]
    ELSE [status |-> 200, parsedId |-> pid]

\* try { createEmbedding; insertEmbedding } catch { console.warn };
\* return NextResponse.json({ success: true, parsedId, ... })
RespondAfterEmbedding(failed, pid) == [status |-> 200, parsedId |-> pid]

\* ctx.db.query("quotes_raw").withIndex("by_orc_number", ...).first():
\* the _id of the first record with the number, 0 for null
FindByOrcNumber(table, orc) ==
    IF \E k \in 1..Len(table) : table[k].orc_number = orc
    THEN CHOOSE k \in 1..Len(table) :
            /\ table[k].orc_number = orc
            /\ \A j \in 1..(k - 1) : table[j].orc_number # orc
    ELSE 0

Respond(r, res) ==
    /\ response' = [response EXCEPT ![r] = res]
    /\ postPc' = [postPc EXCEPT ![r] = "done"]

\* the request arrives: body, getPool, the ORC number of the file name
PostReceived(r, orc) ==
    /\ postPc[r] = "idle"
    /\ orc_number' = [orc_number EXCEPT ![r] = orc]
    /\ postPc' = [postPc EXCEPT ![r] =
                     IF orc # "undefined" THEN "findByOrcNumber" ELSE "insertRaw"]
    /\ UNCHANGED <<now, pool, extractVars, apiVars, breakerVars, ingestVars, fnVars,
                   joinVars, dbVars, rawId, parsedId, response, histVars>>

\* the duplicate check: 409 when a raw record has the number
PostFindByOrcNumber(r) ==
    LET existing == FindByOrcNumber(quotes_raw, orc_number[r]) IN
    /\ postPc[r] = "findByOrcNumber"
    /\ IF existing # 0
       THEN Respond(r, [status |-> 409, parsedId |-> 0])
       ELSE /\ postPc' = [postPc EXCEPT ![r] = "insertRaw"]
            /\ UNCHANGED response
    /\ UNCHANGED <<now, pool, extractVars, apiVars, breakerVars, ingestVars, fnVars,
                   joinVars, dbVars, orc_number, rawId, parsedId, histVars>>

\* convex.mutation(api.quotes.insertRaw, ...)
PostInsertRaw(r) ==
    /\ postPc[r] = "insertRaw"
    /\ quotes_raw' = Append(quotes_raw, [orc_number |-> orc_number[r]])
    /\ rawId' = [rawId EXCEPT ![r] = Len(quotes_raw) + 1]
    /\ postPc' = [postPc EXCEPT ![r] = "extractDescricao"]
    /\ UNCHANGED <<now, pool, extractVars, apiVars, breakerVars, ingestVars, fnVars,
                   joinVars, quotes_parsed, quote_embeddings, orc_number, parsedId,
                   response, histVars>>

\* extractDescricao(normalized, apiKey, modelPool) is called
PostExtracts(r) == postPc[r] = "extractDescricao" /\ pc[r] = "idle" /\ Start(r)

\* extractDescricao returned: convex.mutation(api.quotes.insertParsed, ...)
PostInsertParsed(r) ==
    /\ postPc[r] = "extractDescricao" /\ pc[r] = "returned"
    /\ quotes_parsed' = Append(quotes_parsed,
                                [raw_id |-> rawId[r],
                                 model_used |-> result[r].value.model_used])
    /\ parsedId' = [parsedId EXCEPT ![r] = Len(quotes_parsed) + 1]
    /\ postPc' = [postPc EXCEPT ![r] = "createEmbedding"]
    /\ UNCHANGED <<now, pool, extractVars, apiVars, breakerVars, ingestVars, fnVars,
                   joinVars, quotes_raw, quote_embeddings, orc_number, rawId,
                   response, histVars>>

\* extractDescricao threw: the outer catch answers 500
PostExtractionThrew(r) ==
    /\ postPc[r] = "extractDescricao" /\ pc[r] = "threw"
    /\ Respond(r, [status |-> 500, parsedId |-> 0])
    /\ UNCHANGED <<now, pool, extractVars, apiVars, breakerVars, ingestVars, fnVars,
                   joinVars, dbVars, orc_number, rawId, parsedId, histVars>>

\* a Convex call of the request rejects: the outer catch answers 500
PostConvexFails(r) ==
    /\ \/ postPc[r] \in {"findByOrcNumber", "insertRaw"}
       \/ postPc[r] = "extractDescricao" /\ pc[r] = "returned"
    /\ Respond(r, [status |-> 500, parsedId |-> 0])
    /\ UNCHANGED <<now, pool, extractVars, apiVars, breakerVars, ingestVars, fnVars,
                   joinVars, dbVars, orc_number, rawId, parsedId, histVars>>

\* createEmbedding resolves (created) or throws
PostCreateEmbedding(r, created) ==
    /\ postPc[r] = "createEmbedding"
    /\ IF created
       THEN /\ postPc' = [postPc EXCEPT ![r] = "insertEmbedding"]
            /\ UNCHANGED response
       ELSE Respond(r, RespondAfterEmbedding(TRUE, parsedId[r]))
    /\ UNCHANGED <<now, pool, extractVars, apiVars, breakerVars, ingestVars, fnVars,
                   joinVars, dbVars, orc_number, rawId, parsedId, histVars>>

\* convex.mutation(api.quotes.insertEmbedding, ...) stores the record or throws
PostInsertEmbedding(r, stored) ==
    /\ postPc[r] = "insertEmbedding"
    /\ quote_embeddings' = IF stored
                           THEN Append(quote_embeddings, [parsed_id |-> parsedId[r]])
                           ELSE quote_embeddings
    /\ Respond(r, RespondAfterEmbedding(~stored, parsedId[r]))
    /\ UNCHANGED <<now, pool, extractVars, apiVars, breakerVars, ingestVars, fnVars,
                   joinVars, quotes_raw, quotes_parsed, orc_number, rawId, parsedId,
                   histVars>>

NextPost ==
    \/ \E r \in Requests : \E orc \in OrcNumbers : PostReceived(r, orc)
    \/ \E r \in Requests : PostFindByOrcNumber(r)
    \/ \E r \in Requests : PostInsertRaw(r)
    \/ \E r \in Requests : PostExtracts(r)
    \/ \E r \in Requests : \E k \in PostContents : CallReturns(r, Contents[k])
    \/ \E r \in Requests : CallFailsHttp(r, 429)
    \/ \E r \in Requests : PostInsertParsed(r)
    \/ \E r \in Requests : PostExtractionThrew(r)
    \/ \E r \in Requests : PostConvexFails(r)
    \/ \E r \in Requests : \E created \in BOOLEAN : PostCreateEmbedding(r, created)
    \/ \E r \in Requests : \E stored \in BOOLEAN : PostInsertEmbedding(r, stored)

SpecPost == Init /\ [][NextPost]_vars

----------------------------------------------------------------------------
(* isRetryableModel applied to the status of a failed call: chatCompletion  *)
(* throws its OpenRouterError when res.ok is false, so for every status     *)
(* outside 200..299.                                                        *)

NonSuccessStatuses == (100..MaxStatus) \ (200..299)

InitClassify ==
    /\ InitPipeline /\ IngestIdle /\ ParseIdle /\ NormalizeIdle /\ OthersIdle
    /\ statusIn \in NonSuccessStatuses
    /\ classified = FALSE
    /\ retryable = FALSE

\* isRetryableModel(err.status)
Classify ==
    /\ ~classified
    /\ retryable' = IsRetryableModel(statusIn)
    /\ classified' = TRUE
    /\ UNCHANGED <<now, pool, extractVars, apiVars, breakerVars, ingestVars,
                   statusIn, rawIn, parseOut, textIn, passes,
                   joinVars, dbVars, postVars, histVars>>

NextClassify == Classify

SpecClassify == InitClassify /\ [][NextClassify]_vars

----------------------------------------------------------------------------
(* parseExtractionResponse applied to one text: the text is a JSON object   *)
(* put together from one choice per field (Undefined: the field is absent), *)
(* plain or inside a ``` fence, or it is no JSON, or JSON of another kind.  *)

DescricaoChoices ==
    << Undefined, Str(<<" ", "x", " ">>), Str(<<"x", " ", "y">>), Str(<<>>),
       Str(<<" ", "\n">>), Num(5), JNull >>

ConfidenceChoices ==
    << Undefined, Num(150), Num(0 - 50), Num(70), Num(0), Num(ConfOne),
       Str(<<"1">>), JNull >>

WarningsChoices ==
    << Undefined, Arr(<<Str(<<"w">>), Num(1)>>), Str(<<"w">>) >>

LineItemsChoices ==
    << Undefined, JNull, Arr(<<>>),
       Arr(<<GoodItem, ItemNoQuant, Str(<<"i">>), ItemWithMedida, ItemNumericPrice>>),
       Arr(<<ItemWithMedida, Num(3), GoodItem>>),
       Arr(<<GoodItem, JNull>>),
       Arr(<<JNull>>),
       Str(<<"i">>) >>

\* the JSON object with the fields that are given
Body(d, c, w, li) ==
    LET given == [descricao |-> d, confidence |-> c, warnings |-> w, line_items |-> li]
    IN  Obj([n \in {m \in DOMAIN given : given[m] # Undefined} |-> given[n]])

\* texts that are not a JSON object
OtherTexts == << NotJson, JNull, Num(7), Str(<<"x">>), Arr(<<>>) >>

InitParse ==
    /\ InitPipeline /\ IngestIdle /\ ClassifyIdle /\ NormalizeIdle /\ OthersIdle
    /\ parseOut = NoResult
    /\ \/ \E f \in BOOLEAN :
          \E d \in 1..Len(DescricaoChoices), c \in 1..Len(ConfidenceChoices),
             w \in 1..Len(WarningsChoices), li \in 1..Len(LineItemsChoices) :
             rawIn = [isString |-> TRUE, fenced |-> f,
                      json |-> Body(DescricaoChoices[d], ConfidenceChoices[c],
                                    WarningsChoices[w], LineItemsChoices[li])]
       \/ \E k \in 1..Len(OtherTexts) : rawIn = Text(OtherTexts[k])

\* parseExtractionResponse(raw)
Parse ==
    /\ parseOut = NoResult
    /\ parseOut' = ParseExtractionResponse(rawIn)
    /\ UNCHANGED <<now, pool, extractVars, apiVars, breakerVars, ingestVars,
                   statusIn, classified, retryable, rawIn, textIn, passes,
                   joinVars, dbVars, postVars, histVars>>

NextParse == Parse

SpecParse == InitParse /\ [][NextParse]_vars

----------------------------------------------------------------------------
(* normalizer (src/src/lib/circuit-breaker.test.ts, lines 83-157).  A text  *)
(* is a sequence of characters; a line is a text without "\n".              *)

LowerLetters == {"a"}
UpperLetters == {"B"}
Letters == LowerLetters \cup UpperLetters

\* the characters of the texts normalizeText is applied to
NormChars == Letters \cup {"-", ",", ".", " ", "\n", "\r"}

\* raw.replace(/\r\n/g, "\n")
RECURSIVE ReplaceCRLF(_)
ReplaceCRLF(s) ==
    IF s = <<>> THEN <<>>
    ELSE IF Len(s) >= 2 /\ s[1] = "\r" /\ s[2] = "\n"
         THEN <<"\n">> \o ReplaceCRLF(SubSeq(s, 3, Len(s)))
         ELSE <<Head(s)>> \o ReplaceCRLF(Tail(s))

\* .replace(/\r/g, "\n")
RECURSIVE ReplaceCR(_)
ReplaceCR(s) ==
    IF s = <<>> THEN <<>>
    ELSE <<IF Head(s) = "\r" THEN "\n" ELSE Head(s)>> \o ReplaceCR(Tail(s))

\* text.split("\n"): SplitFrom(s, cur) with cur the line being read
RECURSIVE SplitFrom(_, _)
SplitFrom(s, cur) ==
    IF s = <<>> THEN <<cur>>
    ELSE IF Head(s) = "\n" THEN <<cur>> \o SplitFrom(Tail(s), <<>>)
         ELSE SplitFrom(Tail(s), Append(cur, Head(s)))

Split(s) == SplitFrom(s, <<>>)

\* lines.join("\n")
RECURSIVE Join(_)
Join(lines) ==
    IF lines = <<>> THEN <<>>
    ELSE IF Len(lines) = 1 THEN lines[1]
         ELSE lines[1] \o <<"\n">> \o Join(Tail(lines))

\* .map((l) => l.trim())
TrimLines(lines) == [k \in 1..Len(lines) |-> Trim(lines[k])]

\* the loop collapsing blank lines; blank: the line before was blank
RECURSIVE CollapseFrom(_, _)
CollapseFrom(lines, blank) ==
    IF lines = <<>> THEN <<>>
    ELSE IF Head(lines) = <<>>
         THEN (IF blank THEN <<>> ELSE << <<>> >>) \o CollapseFrom(Tail(lines), TRUE)
         ELSE <<Head(lines)>> \o CollapseFrom(Tail(lines), FALSE)

Collapse(lines) == CollapseFrom(lines, FALSE)

\* .replace(SOFT_HYPHEN, "") with SOFT_HYPHEN = /-\n/g
RECURSIVE RemoveSoftHyphens(_)
RemoveSoftHyphens(s) ==
    IF s = <<>> THEN <<>>
    ELSE IF Len(s) >= 2 /\ s[1] = "-" /\ s[2] = "\n"
         THEN RemoveSoftHyphens(SubSeq(s, 3, Len(s)))
         ELSE <<Head(s)>> \o RemoveSoftHyphens(Tail(s))

\* ENDS_MID_WORD (case-insensitive), ENDS_WITH_COMMA, SENTENCE_ENDERS, UPPERCASE_START
EndsMidWord(l) == l # <<>> /\ l[Len(l)] \in Letters
EndsWithComma(l) == l # <<>> /\ l[Len(l)] = ","
EndsSentence(l) == l # <<>> /\ l[Len(l)] \in {".", ";", ":", "?", "!"}
UppercaseStart(l) == l # <<>> /\ l[1] \in UpperLetters

\* canJoin without the test on the first letter of the next line
CanJoin_AnyCase(current, next) ==
    /\ next # <<>>
    /\ (EndsMidWord(current) \/ EndsWithComma(current))
    /\ ~EndsSentence(current)

\* canJoin
CanJoin(current, next) ==
    /\ next # <<>>
    /\ (EndsMidWord(current) \/ EndsWithComma(current))
    /\ ~EndsSentence(current)
    /\ ~UppercaseStart(next)

\* the inner while loop: current after the greedy joins, and the parts left
RECURSIVE Greedy(_, _)
Greedy(current, rest) ==
    IF rest # <<>> /\ CanJoin(current, Head(rest))
    THEN Greedy(current \o <<" ">> \o Head(rest), Tail(rest))
    ELSE [current |-> current, rest |-> rest]

\* the outer while loop over parts
RECURSIVE JoinPass(_)
JoinPass(parts) ==
    IF parts = <<>> THEN <<>>
    ELSE IF Head(parts) = <<>> THEN << <<>> >> \o JoinPass(Tail(parts))
         ELSE LET g == Greedy(Head(parts), Tail(parts))
              IN  <<g.current>> \o JoinPass(g.rest)

\* normalizeText
NormalizeText(rawText) ==
    LET lines == TrimLines(Split(ReplaceCR(ReplaceCRLF(rawText))))
        joined == RemoveSoftHyphens(Join(Collapse(lines)))
    IN  Trim(Join(JoinPass(Split(joined))))

Texts == UNION {[1..n -> NormChars] : n \in 0..MaxLen}

InitNormalize ==
    /\ InitPipeline /\ IngestIdle /\ ClassifyIdle /\ ParseIdle /\ OthersIdle
    /\ textIn \in Texts
    /\ passes = 0

\* text = normalizeText(text)
Normalize ==
    /\ passes < MaxPasses
    /\ textIn' = NormalizeText(textIn)
    /\ passes' = passes + 1
    /\ UNCHANGED <<now, pool, extractVars, apiVars, breakerVars, ingestVars,
                   statusIn, classified, retryable, rawIn, parseOut,
                   joinVars, dbVars, postVars, histVars>>

NextNormalize == Normalize

SpecNormalize == InitNormalize /\ [][NextNormalize]_vars

\* normalizeText applied to longer texts made of words, hyphens and line breaks
ParagraphChars == {"a", "-", "\n", "\r"}

ParagraphTexts == UNION {[1..n -> ParagraphChars] : n \in 0..MaxParagraphLen}

InitParagraphs ==
    /\ InitPipeline /\ IngestIdle /\ ClassifyIdle /\ ParseIdle /\ OthersIdle
    /\ textIn \in ParagraphTexts
    /\ passes = 0

SpecParagraphs == InitParagraphs /\ [][NextNormalize]_vars

\* the join pass (step 5 of normalizeText) applied to the lines of `parts`
PartLines ==
    { <<>>, <<"a">>, <<"B">>, <<"B", "a">>, <<"a", ",">>, <<"a", ":">>,
      <<"a", ".">>, <<"a", "1">> }

InitJoinPass ==
    /\ InitPipeline /\ IngestIdle /\ ClassifyIdle /\ ParseIdle /\ NormalizeIdle
    /\ PostIdle /\ HistIdle
    /\ partsIn \in UNION {[1..n -> PartLines] : n \in 0..MaxParts}
    /\ partsOut = <<>>
    /\ passDone = FALSE

\* the while loop over parts, to the end
RunJoinPass ==
    /\ ~passDone
    /\ partsOut' = JoinPass(partsIn)
    /\ passDone' = TRUE
    /\ UNCHANGED <<now, pool, extractVars, apiVars, breakerVars, ingestVars, fnVars,
                   partsIn, dbVars, postVars, histVars>>

NextJoinPass == RunJoinPass

SpecJoinPass == InitJoinPass /\ [][NextJoinPass]_vars

----------------------------------------------------------------------------
(* The pool used directly, as circuit-breaker.test.ts does.  stayed[x] holds *)
(* the providers that have been healthy at every moment since nextHealthy    *)
(* last returned x (x itself included); seen[x][y] counts the returns of y   *)
(* since then, for the providers of stayed[x].                               *)

Healthy(pl, id) == IsHealthy(pl.breakers[id], now)

Bump(n) == IF n < MaxSeen THEN n + 1 ELSE n

\* pool.nextHealthy()
CallNextHealthy ==
    LET r == NextHealthy(pool, now)
        x == r.model
    IN  /\ pool' = r.pool
        /\ ret' = x
        /\ lastOp' = "nextHealthy"
        /\ stayed' = IF x = Null THEN stayed
                     ELSE [stayed EXCEPT ![x] = {y \in ModelIds : Healthy(r.pool, y)}]
        /\ seen' = IF x = Null THEN seen
                   ELSE [z \in ModelIds |->
                           IF z = x THEN [y \in ModelIds |-> 0]
                           ELSE IF x \in stayed[z] /\ z \in stayed[z]
                                THEN [seen[z] EXCEPT ![x] = Bump(@)]
                                ELSE seen[z]]
        /\ UNCHANGED <<now, arg, extractVars, breakerVars, ingestVars, fnVars,
                   joinVars, dbVars, postVars, histVars>>

\* pool.recordFailure(id)
CallRecordFailure(id) ==
    /\ id \in ModelIds => pool.breakers[id].failCount < MaxFailCount
    /\ pool' = PoolRecordFailure(pool, id, now)
    /\ lastOp' = "recordFailure"
    /\ arg' = id
    /\ stayed' = [z \in ModelIds |-> IF z = id THEN {} ELSE stayed[z] \ {id}]
    /\ seen' = [z \in ModelIds |->
                  IF z = id THEN [y \in ModelIds |-> 0]
                  ELSE [y \in ModelIds |-> IF y = id THEN 0 ELSE seen[z][y]]]
    /\ UNCHANGED <<now, ret, extractVars, breakerVars, ingestVars, fnVars,
                   joinVars, dbVars, postVars, histVars>>

\* pool.recordSuccess(id)
CallRecordSuccess(id) ==
    /\ pool' = PoolRecordSuccess(pool, id)
    /\ lastOp' = "recordSuccess"
    /\ arg' = id
    /\ UNCHANGED <<now, ret, stayed, seen, extractVars, breakerVars, ingestVars, fnVars,
                   joinVars, dbVars, postVars, histVars>>

\* vi.advanceTimersByTime(d)
AdvanceTimers(d) ==
    /\ now + d <= MaxTicks * BASE_COOLDOWN_MS
    /\ now' = now + d
    /\ lastOp' = "advance"
    /\ UNCHANGED <<pool, ret, arg, stayed, seen, extractVars, breakerVars, ingestVars, fnVars,
                   joinVars, dbVars, postVars, histVars>>

NextPool ==
    \/ CallNextHealthy
    \/ \E id \in ModelIds \cup {UnknownId} : CallRecordFailure(id)
    \/ \E id \in ModelIds \cup {UnknownId} : CallRecordSuccess(id)
    \/ AdvanceTimers(BASE_COOLDOWN_MS)

SpecPool == Init /\ [][NextPool]_vars

----------------------------------------------------------------------------
(* One CircuitBreaker used directly under a fake clock, as the tests of     *)
(* circuit-breaker.test.ts do.  healthy is what isHealthy() last returned,  *)
(* failedAt the time of the last recordFailure().                           *)

\* the fake clock moves by half the base cooldown
ClockStep == BASE_COOLDOWN_MS \div 2

MaxClock == MaxBreakerTicks * ClockStep

\* breaker.isHealthy()
CbIsHealthy ==
    /\ healthy' = IsHealthy(cb, now)
    /\ cbOp' = "isHealthy"
    /\ UNCHANGED <<now, cb, failedAt, afterRecovery, cleared, pool, extractVars, apiVars,
                   ingestVars, fnVars,
                   joinVars, dbVars, postVars, histVars>>

\* breaker.recordFailure()
CbRecordFailure ==
    /\ cb.failCount < MaxBreakerFails
    /\ BreakerRecordFailure(cb, now).cooldownUntil <= MaxClock
    /\ cb' = BreakerRecordFailure(cb, now)
    /\ failedAt' = now
    /\ afterRecovery' = (cb.failCount >= 1 /\ now >= cb.cooldownUntil)
    /\ cbOp' = "recordFailure"
    /\ UNCHANGED <<now, healthy, cleared, pool, extractVars, apiVars, ingestVars, fnVars,
                   joinVars, dbVars, postVars, histVars>>

\* breaker.recordSuccess()
CbRecordSuccess ==
    /\ cb' = BreakerRecordSuccess(cb)
    /\ cleared' = cb.failCount
    /\ cbOp' = "recordSuccess"
    /\ UNCHANGED <<now, healthy, failedAt, afterRecovery, pool, extractVars, apiVars,
                   ingestVars, fnVars,
                   joinVars, dbVars, postVars, histVars>>

\* vi.advanceTimersByTime(d) on the breaker's clock
CbAdvance(d) ==
    /\ now + d <= MaxClock
    /\ now' = now + d
    /\ cbOp' = "advance"
    /\ UNCHANGED <<cb, healthy, failedAt, afterRecovery, cleared, pool, extractVars,
                   apiVars, ingestVars, fnVars,
                   joinVars, dbVars, postVars, histVars>>

NextBreaker ==
    \/ CbIsHealthy
    \/ CbRecordFailure
    \/ CbRecordSuccess
    \/ CbAdvance(ClockStep)

SpecBreaker == Init /\ [][NextBreaker]_vars

\* the same breaker under a clock that keeps advancing, in coarser steps
LiveStep == 2 * BASE_COOLDOWN_MS

NextBreakerLive ==
    \/ CbIsHealthy
    \/ CbRecordFailure
    \/ CbRecordSuccess
    \/ CbAdvance(LiveStep)

SpecBreakerLive ==
    Init /\ [][NextBreakerLive]_vars /\ WF_vars(CbAdvance(LiveStep))

----------------------------------------------------------------------------
(* Steps of an invocation, read off two successive states *)

\* the pending provider call of p completes in this step
Completes(p) ==
    pc[p] = "calling" /\ (pc'[p] # "calling" \/ attempt'[p] # attempt[p])

\* ... with an error, which the catch block stores in lastError
Fails(p) == Completes(p) /\ pc'[p] # "returned"

\* p is called in this step
Starts(p) ==
    /\ pc[p] # "calling"
    /\ <<pc[p], attempt[p], calls[p], result[p]>>' # <<pc[p], attempt[p], calls[p], result[p]>>

Transient(e) == e.name = "OpenRouterError" /\ (e.status = 429 \/ e.status >= 500)
Fatal(e) == e.name = "OpenRouterError" /\ e.status # 429 /\ e.status < 500
ValidationFailure(e) ==
    e \in {InvalidJsonError, MissingDescricaoError, TypeErrorThrown}

NoneHealthy(pl) == \A id \in ModelIds : now < pl.breakers[id].cooldownUntil

\* the step begins the next attempt: a call to a provider, or the
\* all-providers-unavailable error when the pool has none
NextAttempt(p) ==
    /\ attempt'[p] = attempt[p] + 1
    /\ \/ pc'[p] = "calling" /\ calls'[p] = calls[p] + 1
       \/ /\ pc'[p] = "threw" /\ calls'[p] = calls[p]
          /\ result'[p].error = AllCooldownError

\* the step ends the invocation by throwing e
EndsThrowing(p, e) ==
    /\ pc'[p] = "threw" /\ result'[p].error = e /\ ~result'[p].ok
    /\ calls'[p] = calls[p]

Penalised(id) ==
    /\ pool'.breakers[id].failCount = pool.breakers[id].failCount + 1
    /\ pool'.breakers[id].cooldownUntil > now
    /\ \A o \in ModelIds \ {id} : pool'.breakers[o] = pool.breakers[o]

----------------------------------------------------------------------------
(* Claims about extractDescricao *)

\* C1: an invocation of extractDescricao makes at most pool.size + 1 provider
\* calls, whatever the providers answer.
C1_AtMostSizePlusOneCalls == \A p \in Invocations : calls[p] <= Size + 1

C1_Witness == \E p \in Invocations : calls[p] = Size + 1 /\ pc[p] = "calling"

\* C2: when a provider call fails with status 429 or >= 500, recordFailure is
\* called for exactly the provider called, and on every attempt index the
\* invocation goes on to the next attempt while attempts remain (and throws
\* that error once pool.size + 1 attempts are used up).
C2_TransientPenalisedAndRetried ==
    [][\A p \in Invocations :
         (Fails(p) /\ Transient(lastError'[p])) =>
            /\ Penalised(modelId[p])
            /\ IF attempt[p] + 1 < Size + 1
               THEN NextAttempt(p)
               ELSE EndsThrowing(p, lastError'[p])]_vars

C2_Witness ==
    \E p \in Invocations :
        pc[p] = "calling" /\ attempt[p] = Size /\ Transient(lastError[p])

\* C3: when a provider call fails with a fatal status (not 429, below 500),
\* recordFailure is called for that provider; the invocation continues only
\* when this was the first attempt and otherwise throws that error, even if
\* healthy providers remain.
C3_FatalPenalisedRetriedOnce ==
    [][\A p \in Invocations :
         (Fails(p) /\ Fatal(lastError'[p])) =>
            /\ Penalised(modelId[p])
            /\ IF attempt[p] = 0
               THEN NextAttempt(p)
               ELSE EndsThrowing(p, lastError'[p]) /\ attempt'[p] = attempt[p]]_vars

C3_Witness ==
    \E p \in Invocations :
        /\ pc[p] = "threw" /\ attempt[p] = 1 /\ Fatal(result[p].error)
        /\ \E id \in ModelIds \ {modelId[p]} :
              now >= pool.breakers[id].cooldownUntil

\* C4: when a provider answers but its content fails validation, no breaker's
\* failCount or cooldownUntil changes (neither recordSuccess nor recordFailure
\* is called) and the invocation continues only when this was the first
\* attempt; on a later attempt it throws the validation error.
C4_ValidationFailureLeavesBreakers ==
    [][\A p \in Invocations :
         (Fails(p) /\ ValidationFailure(lastError'[p])) =>
            /\ pool'.breakers = pool.breakers
            /\ IF attempt[p] = 0
               THEN NextAttempt(p)
               ELSE EndsThrowing(p, lastError'[p]) /\ attempt'[p] = attempt[p]]_vars

C4_Witness ==
    \E p \in Invocations :
        /\ pc[p] = "threw" /\ attempt[p] = 1
        /\ result[p].error = MissingDescricaoError
        /\ pool.breakers[modelId[p]].failCount > 0

\* C5: when no provider is healthy at the start of an attempt, the invocation
\* throws the all-models-in-cooldown error at once; on the first attempt no
\* provider call has been made and no breaker has changed.
C5_NoneHealthyFailsAtOnce ==
    [][\A p \in Invocations :
         /\ (Starts(p) /\ NoneHealthy(pool)) =>
               /\ pc'[p] = "threw" /\ result'[p] = Threw(AllCooldownError)
               /\ calls'[p] = 0 /\ attempt'[p] = 0
               /\ pool' = pool
         /\ (Fails(p) /\ attempt'[p] = attempt[p] + 1 /\ attempt'[p] < Size + 1
                /\ NoneHealthy(pool')) =>
               /\ pc'[p] = "threw" /\ result'[p] = Threw(AllCooldownError)
               /\ calls'[p] = calls[p]]_vars

C5_Witness ==
    \E p \in Invocations :
        /\ pc[p] = "threw" /\ result[p].error = AllCooldownError
        /\ calls[p] = 0 /\ attempt[p] = 0

\* C6: when a provider's response passes validation, recordSuccess is called
\* for that provider (its breaker is reset), the result's model_used is the
\* identifier nextHealthy returned for the attempt, and the invocation makes
\* no further provider call.
C6_SuccessResetsAndReturns ==
    [][\A p \in Invocations :
         /\ (Completes(p) /\ pc'[p] = "returned") =>
               /\ pool'.breakers[modelId[p]] = [failCount |-> 0, cooldownUntil |-> 0]
               /\ \A o \in ModelIds \ {modelId[p]} :
                     pool'.breakers[o] = pool.breakers[o]
               /\ result'[p].ok
               /\ result'[p].value.model_used = modelId[p]
               /\ calls'[p] = calls[p]
         /\ (pc[p] = "returned" /\ pc'[p] = "returned") => calls'[p] = calls[p]]_vars

C6_Witness ==
    \E p \in Invocations :
        /\ pc[p] = "returned" /\ attempt[p] >= 1
        /\ result[p].value.model_used = "b"

\* C7: extractDescricao never returns a partial result: a returned value has a
\* non-empty trimmed descricao, a confidence within [0,1], only well-formed
\* line items and a model_used of the pool; otherwise it throws and returns
\* nothing.
WellFormedItem(item) ==
    /\ TypeOf(item.descricao) = "string"
    /\ TypeOf(item.quant) = "string"
    /\ TypeOf(item.preco_unit) = "string"
    /\ \/ TypeOf(item.medida) = "undefined"
       \/ TypeOf(item.medida) = "string" /\ item.medida.v # <<>>

Complete(v) ==
    /\ TypeOf(v.descricao) = "string"
    /\ v.descricao.v # <<>>
    /\ v.descricao.v[1] \notin Whitespace
    /\ v.descricao.v[Len(v.descricao.v)] \notin Whitespace
    /\ TypeOf(v.confidence) = "number"
    /\ v.confidence.v >= 0 /\ v.confidence.v <= ConfOne
    /\ \A k \in 1..Len(v.warnings) : TypeOf(v.warnings[k]) = "string"
    /\ \A k \in 1..Len(v.line_items) : WellFormedItem(v.line_items[k])
    /\ v.model_used \in ModelIds

C7_NoPartialResult ==
    \A p \in Invocations :
        /\ pc[p] = "returned" => result[p].ok /\ Complete(result[p].value)
        /\ pc[p] = "threw" => ~result[p].ok /\ result[p].error # NoError
        /\ pc[p] \in {"idle", "calling"} => result[p] = NoResult

C7_Witness ==
    \E p \in Invocations :
        /\ pc[p] = "returned"
        /\ Len(result[p].value.line_items) = 2
        /\ result[p].value.confidence.v = ConfOne

----------------------------------------------------------------------------
(* Claims about ModelPool.nextHealthy *)

\* position of an identifier in the pool's list, from 0
IndexOf(id) == CHOOSE k \in 0..(Len(Models) - 1) : Models[k + 1] = id

\* the identifiers strictly between x and y going round the list from x
Between(x, y) ==
    LET n == Len(Models)
        d == (IndexOf(y) - IndexOf(x) + n) % n
        span == IF d = 0 THEN n ELSE d
    IN  {Models[((IndexOf(x) + j) % n) + 1] : j \in 1..(span - 1)}

\* C8: nextHealthy is round-robin among healthy providers: successive calls
\* return them in list order cyclically, so when a provider is returned again
\* every other provider that stayed healthy in between (as it did itself) has
\* been returned exactly once since.
C8_RoundRobinFair ==
    LET x == NextHealthy(pool, now).model IN
    x # Null =>
        /\ x \in stayed[x] => \A y \in stayed[x] \ {x} : seen[x][y] = 1
        /\ (lastOp = "nextHealthy" /\ ret # Null) =>
              \A z \in Between(ret, x) : now < pool.breakers[z].cooldownUntil

C8_Witness ==
    /\ lastOp = "nextHealthy" /\ ret = "c"
    /\ NextHealthy(pool, now).model = "a"
    /\ stayed["a"] = ModelIds
    /\ seen["a"]["b"] = 1 /\ seen["a"]["c"] = 1

\* C9: nextHealthy returns the first identifier, in list order from the cursor
\* and wrapping, whose breaker is healthy at the time of the call, and never
\* an identifier whose breaker is cooling down.
C9_FirstHealthyFromCursor ==
    LET n == Len(Models)
        x == NextHealthy(pool, now).model
        At(i) == Models[((pool.cursor + i) % n) + 1]
    IN  /\ x # Null =>
              \E i \in 0..(n - 1) :
                  /\ x = At(i)
                  /\ now >= pool.breakers[x].cooldownUntil
                  /\ \A j \in 0..(i - 1) : now < pool.breakers[At(j)].cooldownUntil
        /\ (lastOp = "nextHealthy" /\ ret # Null) =>
              now >= pool.breakers[ret].cooldownUntil

C9_Witness ==
    /\ lastOp = "nextHealthy" /\ ret = "b"
    /\ now < pool.breakers["a"].cooldownUntil
    /\ pool.cursor = 2
    /\ seen["c"]["b"] = 1

\* C10: nextHealthy returns none exactly when no identifier of the pool has a
\* healthy breaker at the time of the call.
C10_NoneIffNoneHealthy ==
    /\ NextHealthy(pool, now).model = Null
          <=> \A id \in ModelIds : now < pool.breakers[id].cooldownUntil
    /\ lastOp = "nextHealthy" =>
          (ret = Null <=> \A id \in ModelIds : now < pool.breakers[id].cooldownUntil)

C10_Witness ==
    /\ lastOp = "nextHealthy" /\ ret = Null
    /\ \A id \in ModelIds : pool.breakers[id].failCount = 1

\* C11: after nextHealthy returns the identifier at list position k the
\* cursor is (k + 1) mod poolSize, and it stays there through any later
\* recordSuccess or recordFailure, on that identifier or another.
C11_CursorPastReturned ==
    ret # Null => pool.cursor = (IndexOf(ret) + 1) % Len(Models)

C11_Witness ==
    /\ lastOp = "recordFailure" /\ arg = "b" /\ ret = "b"
    /\ pool.breakers["b"].failCount = 1
    /\ pool.cursor = 2

\* C19: recordSuccess(id) and recordFailure(id) with an id the pool does not
\* hold leave every breaker and the cursor as they were (and return).
C19_UnknownIdNoOp ==
    [][(lastOp' \in {"recordSuccess", "recordFailure"} /\ arg' = UnknownId)
          => pool' = pool]_vars

C19_Witness ==
    /\ lastOp = "recordFailure" /\ arg = UnknownId
    /\ pool.cursor = 1
    /\ pool.breakers["a"].failCount = 1
    /\ DOMAIN pool.breakers = ModelIds

\* the provider calls of p that have been started and not yet settled
InFlight(p) == calls[p] - completed[p]

\* the step starts a provider call of p after an earlier one of the same
\* invocation
StartsNextCall(p) ==
    calls'[p] = calls[p] + 1 /\ attempt'[p] = attempt[p] + 1

\* C20 as stated: at most one provider call of an invocation is in flight,
\* and the call of attempt k+1 starts only after the call of attempt k has
\* completed and its outcome has been reported to the breaker of its
\* provider (recordFailure for an error, recordSuccess otherwise).
C20_ReportedBeforeNextCall ==
    [][\A p \in Tracked :
         /\ InFlight(p)' \in {0, 1}
         /\ StartsNextCall(p) =>
              /\ Completes(p) /\ completed'[p] = completed[p] + 1
              /\ InFlight(p) = 1 /\ InFlight(p)' = 1
              /\ pool'.breakers # pool.breakers]_vars

\* C20 amended: at most one provider call of an invocation is in flight; the
\* call of attempt k+1 starts only after the call of attempt k has completed,
\* in the same step as its catch block: after recordFailure on its provider
\* when it failed with an OpenRouterError, and with no breaker touched when
\* it failed otherwise (invalid content, rejected request).
C20_SequentialChain ==
    [][\A p \in Tracked :
         /\ InFlight(p)' \in {0, 1}
         /\ (InFlight(p)' = 1) <=> (pc'[p] = "calling")
         /\ StartsNextCall(p) =>
              /\ Completes(p) /\ completed'[p] = completed[p] + 1
              /\ InFlight(p) = 1 /\ InFlight(p)' = 1
              /\ IF IsOpenRouterError(lastError'[p])
                 THEN Penalised(modelId[p])
                 ELSE pool'.breakers = pool.breakers]_vars

C20_Witness ==
    /\ pc["i1"] = "calling" /\ attempt["i1"] = 1
    /\ calls["i1"] = 2 /\ completed["i1"] = 1
    /\ lastError["i1"] = InvalidJsonError
    /\ \A id \in ModelIds : pool.breakers[id].failCount = 0

----------------------------------------------------------------------------
(* Claims about CircuitBreaker *)

Fresh == [failCount |-> 0, cooldownUntil |-> 0]

\* min(30 s * 2^(n-1), 600 s), in milliseconds
ExpectedCooldown(n) == Min(30000 * 2 ^ (n - 1), 600000)

\* C12: what isHealthy() returns is true exactly when the current time is
\* >= cooldownUntil, and a freshly created breaker is healthy.
C12_HealthyIffCooldownElapsed ==
    /\ cbOp = "isHealthy" => (healthy <=> now >= cb.cooldownUntil)
    /\ cbOp = "new" => cb = Fresh /\ IsHealthy(cb, now)
    /\ cb = Fresh => IsHealthy(cb, now)

C12_Witness ==
    /\ cbOp = "isHealthy" /\ healthy
    /\ cb.failCount = 2
    /\ now = cb.cooldownUntil

\* C13: recordFailure increments failCount by one and sets cooldownUntil to
\* now + min(30 s * 2^(failCount-1), 600 s) with the incremented failCount;
\* after the first failure the breaker is unhealthy at once and isHealthy()
\* returns true again only from 30 s after the failure.
C13_FailureBacksOff ==
    /\ [][cbOp' = "recordFailure" =>
            /\ cb'.failCount = cb.failCount + 1
            /\ cb'.cooldownUntil = now + ExpectedCooldown(cb.failCount + 1)]_vars
    /\ [](cb.failCount = 1 =>
            /\ now = failedAt => ~IsHealthy(cb, now)
            /\ cbOp = "isHealthy" => (healthy <=> now >= failedAt + 30000))

C13_Witness ==
    /\ cbOp = "isHealthy" /\ ~healthy
    /\ cb.failCount = 1
    /\ now = failedAt + 15000

\* C14: recovery by time does not reset failCount: a recordFailure that
\* comes once the cooldown of the failure before it has elapsed, with no
\* recordSuccess in between, still increments failCount and doubles the
\* cooldown, up to the cap; after the second such failure the breaker is
\* unhealthy for 60 s.
C14_RecoveryKeepsFailCount ==
    /\ [][(cbOp' = "recordFailure" /\ cb.failCount >= 1 /\ now >= cb.cooldownUntil) =>
            /\ cb'.failCount = cb.failCount + 1
            /\ cb'.cooldownUntil - now
                 = Min(2 * (cb.cooldownUntil - failedAt), 600000)]_vars
    /\ [](cbOp = "isHealthy" /\ cb.failCount = 2 /\ afterRecovery =>
            (healthy <=> now >= failedAt + 60000))

C14_Witness ==
    /\ cbOp = "isHealthy" /\ ~healthy
    /\ cb.failCount = 2 /\ afterRecovery
    /\ now = failedAt + 45000

\* C15: recordSuccess sets failCount and cooldownUntil to 0 together and
\* the breaker is healthy at once, whatever its state was; a recordFailure
\* that follows it applies the 30 s base cooldown, however many failures
\* the success discarded.
C15_SuccessForgetsHistory ==
    /\ [][cbOp' = "recordSuccess" => cb' = Fresh /\ IsHealthy(cb', now')]_vars
    /\ [][(cbOp' = "recordFailure" /\ cb = Fresh) =>
            cb' = [failCount |-> 1, cooldownUntil |-> now + 30000]]_vars
    /\ [](cbOp = "isHealthy" /\ cb = Fresh => healthy)

C15_Witness ==
    /\ cbOp = "recordFailure"
    /\ cleared >= 3
    /\ cb = [failCount |-> 1, cooldownUntil |-> now + 30000]

\* C16: in every reachable state cooldownUntil - now <= 600 s, however
\* many failures have been recorded.
C16_CooldownCapped ==
    cb.cooldownUntil - now <= 600000

C16_Witness ==
    /\ cb.failCount >= 6
    /\ cb.cooldownUntil - now = 600000

\* C17: over recordFailure calls with no recordSuccess in between,
\* cooldownUntil never decreases from one call to the next.
C17_CooldownUntilMonotonic ==
    [][(cbOp' = "recordFailure" /\ cb.failCount >= 1) =>
          cb'.cooldownUntil >= cb.cooldownUntil]_vars

C17_Witness ==
    /\ cbOp = "recordFailure"
    /\ cb.failCount >= 6
    /\ ~afterRecovery
    /\ cb.cooldownUntil = now + 600000

\* C18: a breaker has no terminal unhealthy state: while time keeps
\* advancing, an unhealthy breaker with failCount k becomes healthy, and
\* selectable by nextHealthy of a pool holding it, unless a further
\* recordFailure or a recordSuccess (either changes failCount) comes first.
C18_RecoversByTimeAlone ==
    \A k \in 1..(MaxBreakerFails + 1) :
        (cb.failCount = k /\ ~IsHealthy(cb, now))
            ~> \/ cb.failCount # k
               \/ /\ IsHealthy(cb, now)
                  /\ NextHealthy([cursor |-> 0,
                                  breakers |-> [id \in ModelIds |-> cb]],
                                 now).model # Null

C18_Witness ==
    /\ cbOp = "advance"
    /\ cb.failCount >= 3
    /\ now = cb.cooldownUntil
    /\ IsHealthy(cb, now)

----------------------------------------------------------------------------
(* Claims about invocations sharing the pool *)

\* the breakers a step changes
Touched == {id \in ModelIds : pool'.breakers[id] # pool.breakers[id]}

\* id is in its cooldown
Cooling(id) == now < pool.breakers[id].cooldownUntil

\* C21: invocations touching different identifiers never conflict: every
\* step, of the invocation followed or of another one, changes the failCount
\* and cooldownUntil of at most one identifier, and the step in which a
\* provider call of an invocation settles changes none but that of the
\* provider it called.
C21_OtherBreakersUntouched ==
    [][/\ Cardinality(Touched) <= 1
       /\ \A p \in Tracked : Completes(p) => Touched \subseteq {modelId[p]}]_vars

C21_Witness ==
    /\ pc["i1"] = "returned" /\ modelId["i1"] = "c"
    /\ pool.breakers["c"] = [failCount |-> 0, cooldownUntil |-> 0]
    /\ pool.breakers["a"] = [failCount |-> 1, cooldownUntil |-> 30000]
    /\ pool.breakers["b"] = [failCount |-> 1, cooldownUntil |-> 60000]
    /\ now = 30000

\* C22: once a recordFailure has set a cooldown for a provider, no step of
\* any invocation makes that provider selectable before the cooldown has
\* elapsed: while the provider is cooling, its cooldownUntil only grows.
C22_CooldownNeverLost ==
    [][\A id \in ModelIds :
         Cooling(id) =>
            pool'.breakers[id].cooldownUntil >= pool.breakers[id].cooldownUntil]_vars

\* C23: when the provider call of an attempt is aborted (the call rejects
\* with an error that is no OpenRouterError), no breaker changes and the
\* invocation goes on to the next attempt on every attempt index while
\* attempts remain.
C23_AbortRetriedLikeTransient ==
    [][\A p \in Tracked :
         (Fails(p) /\ lastError'[p] = FetchFailed) =>
            /\ pool'.breakers = pool.breakers
            /\ IF attempt[p] + 1 < Size + 1
               THEN NextAttempt(p)
               ELSE EndsThrowing(p, FetchFailed)]_vars

\* C24: fatal provider errors and validation failures share one extra retry
\* per invocation: a failure of either class is followed by a further
\* attempt exactly when it is the failure of the first attempt (no failure
\* came before it), and on any later attempt it ends the invocation with
\* that error.
C24_OneSharedRetry ==
    [][\A p \in Tracked :
         LET e == lastError'[p] IN
         (Fails(p) /\ (Fatal(e) \/ ValidationFailure(e))) =>
            /\ NextAttempt(p) <=> attempt[p] = 0
            /\ NextAttempt(p) => lastError[p] = NoError
            /\ attempt[p] >= 1 =>
                  EndsThrowing(p, e) /\ attempt'[p] = attempt[p]]_vars

C24_Witness ==
    /\ pc["i1"] = "threw" /\ attempt["i1"] = 1 /\ calls["i1"] = 2
    /\ Fatal(result["i1"].error)
    /\ \A id \in ModelIds : id # modelId["i1"] => pool.breakers[id].failCount = 0

\* C25: all ingest requests of a process use the same ModelPool: getPool
\* constructs it at most once, on the first request, the module-level
\* reference never changes again, every running request holds that one
\* instance, and a request that begins finds breakers and cursor as the
\* requests before it left them.
C25_OnePoolPerProcess ==
    /\ [](Len(instances) <= 1)
    /\ [](\A r \in Requests : modelPool[r] # 0 => modelPool[r] = poolRef)
    /\ [][poolRef # 0 => poolRef' = poolRef /\ Len(instances') = Len(instances)]_vars
    /\ [][\A r \in Requests :
            (modelPool[r] = 0 /\ modelPool'[r] # 0) =>
                IF poolRef = 0
                THEN instances' = <<NewPool>> /\ poolRef' = 1
                ELSE instances' = instances]_vars

C25_Witness ==
    /\ poolRef = 1
    /\ modelPool["i1"] = 0
    /\ modelPool["i2"] = 1 /\ pc["i2"] = "idle"
    /\ instances[1].cursor = 2
    /\ instances[1].breakers["a"].failCount = 1
    /\ instances[1].breakers["b"].failCount = 0

----------------------------------------------------------------------------
(* Claims about the pure functions of the extractor and the normalizer *)

\* C26: for every non-success HTTP status s, isRetryableModel(s) is true
\* exactly when s = 429 or s >= 500: 429, 500 and 503 are transient, 400 and
\* 401 fatal.
C26_TransientIff429Or5xx ==
    classified =>
        /\ retryable <=> (statusIn = 429 \/ statusIn >= 500)
        /\ statusIn \in {429, 500, 503} => retryable
        /\ statusIn \in {400, 401} => ~retryable

C26_Witness == classified /\ statusIn = 429 /\ retryable

\* parseExtractionResponse has been applied to rawIn
Parsed == parseOut.ok \/ parseOut.error # NoError

\* the field of the payload, Undefined when the payload is no object
Field(name) ==
    IF rawIn.json.t = "obj" THEN Prop(rawIn.json, name) ELSE Undefined

\* a string with a character that is no whitespace
NonBlankString(j) == j.t = "str" /\ \E k \in 1..Len(j.v) : j.v[k] \notin Whitespace

\* an element carrying string descricao, quant and preco_unit
CarriesItemFields(e) ==
    /\ e.t = "obj"
    /\ \A n \in {"descricao", "quant", "preco_unit"} :
          n \in DOMAIN e.v /\ e.v[n].t = "str"

\* the well-formed elements of a list, in their order
RECURSIVE WellFormedOnly(_)
WellFormedOnly(items) ==
    IF items = <<>> THEN <<>>
    ELSE IF CarriesItemFields(Head(items))
         THEN <<Head(items)>> \o WellFormedOnly(Tail(items))
         ELSE WellFormedOnly(Tail(items))

\* C27: for a payload with a valid descricao whose line_items is an array,
\* parsing succeeds and yields exactly the elements carrying string
\* descricao, quant and preco_unit, in their original order; every other
\* element (null, not an object, partially filled) is dropped.
C27_MalformedItemsDropped ==
    (Parsed /\ NonBlankString(Field("descricao")) /\ Field("line_items").t = "arr") =>
        LET kept == WellFormedOnly(Field("line_items").v) IN
        /\ parseOut.ok
        /\ Len(parseOut.value.line_items) = Len(kept)
        /\ \A k \in 1..Len(kept) :
              \A n \in {"descricao", "quant", "preco_unit"} :
                 parseOut.value.line_items[k][n] = kept[k].v[n]

\* C28: the confidence parseExtractionResponse yields is within [0,1]: a
\* numeric confidence is clamped (1.5 to 1, -0.5 to 0, inside the range
\* kept), an absent or non-numeric one becomes 0.5.
C28_ConfidenceClamped ==
    (Parsed /\ parseOut.ok) =>
        LET c == Field("confidence")
            out == parseOut.value.confidence
        IN  /\ out.t = "num" /\ out.v >= 0 /\ out.v <= ConfOne
            /\ c.t = "num" =>
                  out.v = (IF c.v > ConfOne THEN ConfOne
                           ELSE IF c.v < 0 THEN 0 ELSE c.v)
            /\ c.t # "num" => 2 * out.v = ConfOne

C28_Witness ==
    /\ parseOut.ok
    /\ Field("confidence").t = "num" /\ Field("confidence").v < 0
    /\ parseOut.value.confidence.v = 0

\* C29: parseExtractionResponse throws for every text that is no JSON and
\* for every parsed body whose descricao is absent, not a string or empty
\* after trimming; it succeeds only with a non-empty trimmed string
\* descricao, which it returns.
C29_FailsWithoutDescricao ==
    Parsed =>
        /\ rawIn.json.t = "notjson" => ~parseOut.ok
        /\ ~NonBlankString(Field("descricao")) => ~parseOut.ok
        /\ ~parseOut.ok => parseOut.error # NoError /\ parseOut.value = <<>>
        /\ parseOut.ok =>
              /\ NonBlankString(Field("descricao"))
              /\ NonBlankString(parseOut.value.descricao)

C29_Witness ==
    /\ ~parseOut.ok /\ parseOut.error = MissingDescricaoError
    /\ Field("descricao").t = "str" /\ Len(Field("descricao").v) = 2
    /\ Field("confidence").t = "num"

\* C30: normalizeText is idempotent: applied to its own output it returns
\* that output.
C30_Idempotent ==
    [][passes >= 1 => textIn' = textIn]_vars

----------------------------------------------------------------------------
(* normalizeText: the shape of its output *)

\* the lines of a text, and the blank ones among them
LinesOf(t) == Split(t)
BlankLine(l) == Trim(l) = <<>>

\* C31: the output of normalizeText contains no carriage return and no two
\* consecutive blank lines, whatever the input.
C31_NoCRNoBlankRun ==
    passes = 1 =>
        /\ \A k \in 1..Len(textIn) : textIn[k] # "\r"
        /\ \A k \in 1..(Len(LinesOf(textIn)) - 1) :
               ~(BlankLine(LinesOf(textIn)[k]) /\ BlankLine(LinesOf(textIn)[k + 1]))

\* C33: the output of normalizeText never contains a hyphen immediately
\* followed by a line break.
C33_NoSoftHyphenLeft ==
    passes = 1 =>
        \A k \in 1..(Len(textIn) - 1) : ~(textIn[k] = "-" /\ textIn[k + 1] = "\n")

\* what the join pass has to put between line k and line k + 1 of parts:
\* one space where the four conditions hold, the line break elsewhere
Ender(c) == c \in {".", ";", ":", "?", "!"}

MustJoin(cur, next) ==
    /\ next # <<>>
    /\ cur # <<>> /\ (cur[Len(cur)] \in Letters \/ cur[Len(cur)] = ",")
    /\ ~Ender(cur[Len(cur)])
    /\ next[1] \notin UpperLetters

RECURSIVE Glue(_)
Glue(parts) ==
    IF Len(parts) <= 1 THEN Join(parts)
    ELSE parts[1]
         \o (IF MustJoin(parts[1], parts[2]) THEN <<" ">> ELSE <<"\n">>)
         \o Glue(Tail(parts))

----------------------------------------------------------------------------
(* extractDescricao: whole invocations run one by one *)

\* a provider call of p settles and p goes on to its next provider call
Recalls(p) ==
    pc[p] = "calling" /\ pc'[p] = "calling" /\ completed'[p] = completed[p] + 1

\* p's provider call settles and ends the invocation
Ends(p) == pc[p] = "calling" /\ pc'[p] # "calling"

\* less than the base cooldown has elapsed since p was called
Recent(p) == now - startedAt[p] < BASE_COOLDOWN_MS

\* C34: after a validation failure on the first attempt, the second attempt
\* is sent to a different model from the one that returned the bad payload.
C34_RetryOnDifferentModel ==
    [][\A p \in Invocations :
          (Recalls(p) /\ attempt[p] = 0 /\ ValidationFailure(lastError'[p]))
              => modelId'[p] # modelId[p]]_vars

\* C36: an invocation called with every provider healthy, whose provider
\* calls all fail transiently within the base cooldown, ends after exactly
\* Size calls, one failure recorded on each provider, on attempt Size + 1
\* with the all-models-in-cooldown error.
C36_AllTransientEndsInCooldown ==
    [][\A p \in Invocations :
          ( /\ Ends(p) /\ Recent(p)
            /\ healthyAtStart[p] = ModelIds
            /\ outcomes'[p] = {"transient"} )
              => /\ pc'[p] = "threw"
                 /\ result'[p] = Threw(AllCooldownError)
                 /\ calls'[p] = Size
                 /\ attempt'[p] = Size
                 /\ \A id \in ModelIds : failures'[p][id] = 1]_vars

C36_Witness ==
    \E p \in Invocations :
        /\ pc[p] = "threw" /\ result[p] = Threw(AllCooldownError)
        /\ healthyAtStart[p] = ModelIds /\ outcomes[p] = {"transient"}
        /\ calls[p] = Size /\ now - startedAt[p] < BASE_COOLDOWN_MS

\* C37: while less than the base cooldown has elapsed since it was called,
\* an invocation never sends a later attempt to a provider it has recorded
\* a failure on.
C37_FailedProviderNotReselected ==
    [][\A p \in Invocations :
          (Recalls(p) /\ Recent(p)) => failures'[p][modelId'[p]] = 0]_vars

C37_Witness ==
    \E p \in Invocations :
        /\ pc[p] = "calling" /\ attempt[p] >= 2
        /\ \E id \in ModelIds : failures[p][id] > 0
        /\ now - startedAt[p] < BASE_COOLDOWN_MS

\* C38: every invocation terminates when its provider calls settle: each
\* provider call that settles without ending the invocation moves it to a
\* later attempt, the attempts never exceed MAX_ATTEMPTS, and an invocation
\* waiting for a provider eventually returns or throws.
C38_Terminates ==
    /\ [][\A p \in Invocations : Recalls(p) => attempt'[p] > attempt[p]]_vars
    /\ [](\A p \in Invocations : attempt[p] <= MAX_ATTEMPTS)
    /\ \A p \in Tracked : (pc[p] = "calling") ~> (pc[p] \in {"returned", "threw"})

C38_Witness ==
    \E p \in Invocations : pc[p] \in {"returned", "threw"} /\ calls[p] = Size + 1

----------------------------------------------------------------------------
(* the ingest route and its tables *)

\* the raw and parsed records of request r are in the tables
Stored(r) ==
    /\ rawId[r] \in 1..Len(quotes_raw)
    /\ quotes_raw[rawId[r]].orc_number = orc_number[r]
    /\ parsedId[r] \in 1..Len(quotes_parsed)
    /\ quotes_parsed[parsedId[r]].raw_id = rawId[r]

\* an embedding of r's parsed quote is in the table
Embedded(r) ==
    \E k \in 1..Len(quote_embeddings) : quote_embeddings[k].parsed_id = parsedId[r]

\* a parsed quote exists for a document with ORC number orc
ParsedFor(orc) ==
    \E k \in 1..Len(quotes_parsed) :
        quotes_raw[quotes_parsed[k].raw_id].orc_number = orc

\* request q was answered 500 because its extraction threw
FailedExtracting(q) == response[q].status = 500 /\ pc[q] = "threw"

\* C35: once the parsed quote is stored, the request answers success with
\* the parsedId whether or not the embedding is created and stored, and the
\* raw and parsed records stay in their tables.
C35_EmbeddingBestEffort ==
    /\ [][\A r \in Requests :
            (postPc[r] \in {"createEmbedding", "insertEmbedding"} /\ postPc'[r] = "done")
                => /\ response'[r] = [status |-> 200, parsedId |-> parsedId[r]]
                   /\ quotes_raw' = quotes_raw
                   /\ quotes_parsed' = quotes_parsed]_vars
    /\ [](\A r \in Requests : response[r].status = 200 => Stored(r))

\* a request answered with success although no embedding of its quote exists
C35_Witness ==
    \E r \in Requests : response[r].status = 200 /\ Stored(r) /\ ~Embedded(r)

\* C39: after a request failed during extraction, a request for the same
\* document is not rejected as a duplicate: 409 is answered only when a
\* quote of the document was parsed.
C39_RetryAfterFailedExtraction ==
    [][\A r \in Requests :
          ( /\ postPc[r] = "findByOrcNumber"
            /\ \E q \in Requests \ {r} :
                  FailedExtracting(q) /\ orc_number[q] = orc_number[r] )
              => (response'[r].status = 409 => ParsedFor(orc_number[r]))]_vars

\* C40: at most one quotes_raw record per ORC number is ever stored.
C40_OneRawPerOrcNumber ==
    \A orc \in OrcNumbers \ {"undefined"} :
        Cardinality({k \in 1..Len(quotes_raw) : quotes_raw[k].orc_number = orc}) <= 1

====
